---- MODULE Spec2Model ----
(***************************************************************************)
(* Verification model of arisutalk/character-spec: the zod schema          *)
(* definitions of the v0 character specification and the apply() helper    *)
(* that validates a plain input value against one of them, and the         *)
(* generator that derives declaration files from the schema modules.       *)
(*                                                                         *)
(* A plain value is a tagged record.  An object is a function from the     *)
(* keys it holds to values: a key that is absent from the object is        *)
(* absent from the function's domain.  A validation returns the parsed     *)
(* value together with the set of issues found, each with its path.        *)
(***************************************************************************)
EXTENDS Integers, Sequences, FiniteSets, TLC

VARIABLES
    clock,   \* the reading of Date.now()
    schema,  \* the schema of the last apply() call
    input,   \* the data of the last apply() call
    result,  \* what the last apply() call returned or threw
    round,   \* 0: no call yet, 1: a call on fresh data, 2: a call on the value the previous call returned
    tree,               \* the modules under SRC_DIR
    pc,                 \* where the generator run is: idle, start, modules, main, versions, done, failed
    sourceFiles,        \* the paths found by glob, sorted
    cursor,             \* the index in sourceFiles of the module handled next
    dist,               \* the files written by this run under DIST_DIR, by path
    dirModules,         \* directory -> the modules generated in it
    dirSubdirs,         \* directory -> its subdirectories
    characterVersions,  \* the versions detected, in the order of detection
    generatedModules,   \* the modules generated, in the order of generation
    error,              \* the error that ended the run
    runs,               \* the number of the run
    previous,           \* what the run before wrote and how it ended
    node,               \* the schema node whose override is resolved
    override,           \* what the resolution of the override of node came to
    heap,               \* the values reachable from a module's exports, by address
    stack,              \* the calls of walk in progress, the innermost last
    found,              \* the schemas collected, in the order of insertion
    visitedObjects,     \* the plain objects that walk has entered
    walk                \* where the collection is: idle, walking, returned, overflow

genVars == <<tree, pc, sourceFiles, cursor, dist, dirModules, dirSubdirs, characterVersions,
             generatedModules, error, runs, previous>>

overrideVars == <<node, override>>

walkVars == <<heap, stack, found, visitedObjects, walk>>

vars == <<clock, schema, input, result, round, genVars, overrideVars, walkVars>>

(***************************************************************************)
(* Bounds of the model.                                                    *)
(***************************************************************************)
MaxClock == 1   \* Date.now() readings are 0..MaxClock
MaxLen == 2     \* longest array enumerated as an input
MaxNum == 2     \* numerators of the numbers tried are -MaxNum..MaxNum

(***************************************************************************)
(* Plain values.                                                           *)
(***************************************************************************)
Undef == [t |-> "undefined"]
Null == [t |-> "null"]
Str(s) == [t |-> "string", s |-> s]
\* The number n/d + m * 2^53, with d > 0, m in {-1, 0, 1} and n/d small
\* against 2^53: 2^53 - 1 is Number.MAX_SAFE_INTEGER.
NumberOf(n, d, m) == [t |-> "number", n |-> n, d |-> d, m |-> m]
Frac(n, d) == NumberOf(n, d, 0)
Num(n) == Frac(n, 1)
\* The number 2^53 + k.
Pow53Plus(k) == NumberOf(k, 1, 1)
Bool(b) == [t |-> "boolean", b |-> b]
Arr(items) == [t |-> "array", items |-> items]
Obj(f) == [t |-> "object", f |-> f]
Bytes(buf) == [t |-> "Uint8Array", buffer |-> buf]
EmptyObj == Obj([k \in {} |-> Undef])

\* input[key]: undefined when the key is absent.
Get(x, key) == IF key \in DOMAIN x.f THEN x.f[key] ELSE Undef

\* The path segment of an array index.
IdxStr(i) == CASE i = 1 -> "0" [] i = 2 -> "1" [] i = 3 -> "2" [] i = 4 -> "3" [] OTHER -> "n"

(***************************************************************************)
(* Validation results and issues.                                          *)
(***************************************************************************)
Issue(code) == [path |-> <<>>, code |-> code]
OK(v) == [value |-> v, issues |-> {}]
Bad(v, code) == [value |-> v, issues |-> {Issue(code)}]
Prefix(key, issues) == {[path |-> <<key>> \o i.path, code |-> i.code] : i \in issues}

(***************************************************************************)
(* Primitive schemas.                                                      *)
(***************************************************************************)
String(x) == IF x.t = "string" THEN OK(x) ELSE Bad(x, "invalid_type")
Number(x) == IF x.t = "number" THEN OK(x) ELSE Bad(x, "invalid_type")
Boolean(x) == IF x.t = "boolean" THEN OK(x) ELSE Bad(x, "invalid_type")
\* z.literal(v) that looks at the type of the value alone.
Literal_SameType(x, v) == IF x.t = v.t THEN OK(x) ELSE Bad(x, "invalid_value")

Literal(x, lit) == IF x = lit THEN OK(x) ELSE Bad(x, "invalid_value")
Enum(x, names) == IF x.t = "string" /\ x.s \in names THEN OK(x) ELSE Bad(x, "invalid_value")

\* optional() confused with a default of null.
Optional_AsNull(x, r) == IF x = Undef THEN OK(Null) ELSE r

\* schema.optional(): undefined passes through and nothing is synthesized.
Optional(x, r) == IF x = Undef THEN OK(Undef) ELSE r

\* schema.default(d): undefined is replaced by d, anything else is validated.
Default(x, d, r) == IF x = Undef THEN OK(d) ELSE r

\* schema.default(d).optional(): the wrapped schema takes undefined itself,
\* so optional() hands undefined on to it and the default is what comes
\* back; r is the result of the wrapped schema on x.
OptionalOverDefault(x, r) == IF x = Undef /\ r.issues # {} THEN OK(Undef) ELSE r

\* schema.refine(pred): the predicate runs only on a value that parsed
\* without issues.
Refine(r, holds) ==
    IF r.issues # {} THEN r
    ELSE IF holds THEN r
    ELSE [r EXCEPT !.issues = {Issue("custom")}]

\* z.object stopping at the first key that has an issue.
Object_FailFast(x, R) ==
    LET failing == {k \in DOMAIN R : R[k].issues # {}}
        first == CHOOSE k \in failing : TRUE
    IN  [value |-> Obj([k \in {j \in DOMAIN R : R[j].value # Undef \/ j \in DOMAIN x.f} |-> R[k].value]),
         issues |-> IF failing = {} THEN {} ELSE Prefix(first, R[first].issues)]

\* z.object(shape): every key of the shape is validated, every issue is
\* kept under its key, and a key whose result is undefined is left out
\* unless the input held it.
Object(x, R) ==
    [value |-> Obj([k \in {j \in DOMAIN R : R[j].value # Undef \/ j \in DOMAIN x.f} |-> R[k].value]),
     issues |-> UNION {Prefix(k, R[k].issues) : k \in DOMAIN R}]

\* z.array(element): every element is validated, issues under its index.
\* R holds the results of the elements, in order.
Array(x, R) ==
    IF x.t # "array" THEN Bad(x, "invalid_type")
    ELSE [value |-> Arr([i \in 1..Len(x.items) |-> R[i].value]),
          issues |-> UNION {Prefix(IdxStr(i), R[i].issues) : i \in 1..Len(x.items)}]

(***************************************************************************)
(* src/types/v0/utils.ts                                                   *)
(***************************************************************************)
UrlStrings == {"http://x/a.png", "http://x/b.png", "local:a"}

ImageURLSchema(x) ==
    IF x.t # "string" THEN Bad(x, "invalid_type")
    ELSE IF x.s \in UrlStrings THEN OK(x) ELSE Bad(x, "invalid_format")

Uint8ArraySchema(x) == IF x.t = "Uint8Array" THEN OK(x) ELSE Bad(x, "custom")

\* z.union: the first option that parses without issues is the result.
FileSchema(x) ==
    IF ImageURLSchema(x).issues = {} THEN ImageURLSchema(x)
    ELSE IF Uint8ArraySchema(x).issues = {} THEN Uint8ArraySchema(x)
    ELSE Bad(x, "invalid_union")

\* unique with <= in place of ===.
unique_AtMost(key, arr) ==
    Cardinality({Get(arr.items[i], key) : i \in 1..Len(arr.items)}) <= Len(arr.items)

\* unique(key): new Set(i.map((j) => j[key])).size === i.length
unique(key, arr) ==
    Cardinality({Get(arr.items[i], key) : i \in 1..Len(arr.items)}) = Len(arr.items)

\* Number.isInteger
IsInteger(x) == x.n % x.d = 0

\* Number.isSafeInteger, of an integer: its magnitude is at most 2^53 - 1.
IsSafeInteger(x) ==
    CASE x.m = 0 -> TRUE
      [] x.m = 1 -> x.n <= -x.d
      [] x.m = -1 -> x.n >= x.d

\* input > 0
Positive(x) == x.m = 1 \/ (x.m = 0 /\ x.n > 0)

\* input >= k, for a small k
AtLeast(x, k) ==
    CASE x.m = 0 -> x.n >= k * x.d
      [] x.m = 1 -> TRUE
      [] x.m = -1 -> FALSE

\* The check of z.int(): a non-integer is an invalid_type issue that stops
\* the later checks, an integer outside the safe range is a too_big or a
\* too_small issue.
IntIssues(x) ==
    IF ~IsInteger(x) THEN {Issue("invalid_type")}
    ELSE IF IsSafeInteger(x) THEN {}
    ELSE IF Positive(x) THEN {Issue("too_big")} ELSE {Issue("too_small")}

\* The check of .min(k).
MinIssues(x, k) == IF AtLeast(x, k) THEN {} ELSE {Issue("too_small")}

\* positiveInteger with min(0) in place of min(1).
positiveInteger_Min0(x) ==
    IF x.t # "number" THEN Bad(x, "invalid_type")
    ELSE IF ~IsInteger(x) THEN Bad(x, "invalid_type")
    ELSE [value |-> x, issues |-> IntIssues(x) \cup MinIssues(x, 0)]

\* z.int().min(1): a non-integer aborts the checks, so min is not reported.
positiveInteger(x) ==
    IF x.t # "number" THEN Bad(x, "invalid_type")
    ELSE IF ~IsInteger(x) THEN Bad(x, "invalid_type")
    ELSE [value |-> x, issues |-> IntIssues(x) \cup MinIssues(x, 1)]

(***************************************************************************)
(* Character/Meta                                                          *)
(***************************************************************************)
\* MetaSchema with license declared optional instead of defaulted.
MetaSchema_LicenseOptional(x) ==
    IF x.t # "object" THEN Bad(x, "invalid_type")
    ELSE Object(x,
        [author |-> Optional(Get(x, "author"), String(Get(x, "author"))),
         license |-> Optional(Get(x, "license"), String(Get(x, "license"))),
         version |-> Optional(Get(x, "version"), String(Get(x, "version"))),
         distributedOn |-> Optional(Get(x, "distributedOn"), String(Get(x, "distributedOn"))),
         additionalInfo |-> Optional(Get(x, "additionalInfo"), String(Get(x, "additionalInfo")))])


MetaSchema(x) ==
    IF x.t # "object" THEN Bad(x, "invalid_type")
    ELSE Object(x,
        [author |-> Optional(Get(x, "author"), String(Get(x, "author"))),
         license |-> Default(Get(x, "license"), Str("ARR"), String(Get(x, "license"))),
         version |-> Optional(Get(x, "version"), String(Get(x, "version"))),
         distributedOn |-> Optional(Get(x, "distributedOn"), String(Get(x, "distributedOn"))),
         additionalInfo |-> Optional(Get(x, "additionalInfo"), String(Get(x, "additionalInfo")))])

(***************************************************************************)
(* Character/Lorebook                                                      *)
(***************************************************************************)
RegexConditionSchema(x) ==
    Object(x,
        [type |-> Literal(Get(x, "type"), Str("regex_match")),
         regexPattern |-> String(Get(x, "regexPattern")),
         regexFlags |-> Optional(Get(x, "regexFlags"), String(Get(x, "regexFlags")))])

PlainTextConditionSchema(x) ==
    Object(x,
        [type |-> Literal(Get(x, "type"), Str("plain_text_match")),
         text |-> String(Get(x, "text"))])

AlwaysConditionSchema(x) ==
    Object(x, [type |-> Literal(Get(x, "type"), Str("always"))])

\* LorebookConditionSchema that takes an input of no known tag as "always".
LorebookConditionSchema_UntaggedAlways(x) ==
    IF x.t # "object" THEN Bad(x, "invalid_type")
    ELSE IF Get(x, "type") = Str("regex_match") THEN RegexConditionSchema(x)
    ELSE IF Get(x, "type") = Str("plain_text_match") THEN PlainTextConditionSchema(x)
    ELSE OK(x)

\* z.discriminatedUnion("type", ...): the variant is picked by the tag and
\* the input is validated against that variant alone.
LorebookConditionSchema(x) ==
    IF x.t # "object" THEN Bad(x, "invalid_type")
    ELSE IF Get(x, "type") = Str("regex_match") THEN RegexConditionSchema(x)
    ELSE IF Get(x, "type") = Str("plain_text_match") THEN PlainTextConditionSchema(x)
    ELSE IF Get(x, "type") = Str("always") THEN AlwaysConditionSchema(x)
    ELSE [value |-> x, issues |-> Prefix("type", {Issue("invalid_union")})]

ConditionArray(x) == Array(x, [i \in 1..Len(x.items) |-> LorebookConditionSchema(x.items[i])])

LorebookEntrySchema(x) ==
    IF x.t # "object" THEN Bad(x, "invalid_type")
    ELSE Object(x,
        [id |-> String(Get(x, "id")),
         name |-> String(Get(x, "name")),
         condition |-> Default(Get(x, "condition"), Arr(<<>>), ConditionArray(Get(x, "condition"))),
         multipleConditionResolveStrategy |->
             Optional(Get(x, "multipleConditionResolveStrategy"),
                      Enum(Get(x, "multipleConditionResolveStrategy"), {"all", "any"})),
         content |-> String(Get(x, "content")),
         priority |-> Optional(Get(x, "priority"), Number(Get(x, "priority"))),
         enabled |-> Optional(Get(x, "enabled"), Boolean(Get(x, "enabled")))])

\* z.number().int().min(1)
TokenLimit(x) ==
    IF x.t # "number" THEN Bad(x, "invalid_type")
    ELSE IF ~IsInteger(x) THEN Bad(x, "invalid_type")
    ELSE [value |-> x, issues |-> IntIssues(x) \cup MinIssues(x, 1)]

LorebookConfig(x) ==
    IF x.t # "object" THEN Bad(x, "invalid_type")
    ELSE Object(x, [tokenLimit |-> TokenLimit(Get(x, "tokenLimit"))])

EntryArray(x) == Array(x, [i \in 1..Len(x.items) |-> LorebookEntrySchema(x.items[i])])

\* z.array(LorebookEntrySchema).refine(unique("id"))
UniqueEntries(x) == Refine(EntryArray(x), unique("id", EntryArray(x).value))

\* LorebookDataSchema.shape.data
LorebookEntries(x) == Default(x, Arr(<<>>), UniqueEntries(x))

LorebookDataSchema(x) ==
    IF x.t # "object" THEN Bad(x, "invalid_type")
    ELSE Object(x,
        [config |-> LorebookConfig(Get(x, "config")),
         data |-> LorebookEntries(Get(x, "data"))])

(***************************************************************************)
(* Executables/ReplaceHook                                                 *)
(***************************************************************************)
RegexMetaType(x) ==
    Object(x,
        [type |-> Literal(Get(x, "type"), Str("regex")),
         flag |-> String(Get(x, "flag"))])

StringMetaType(x) ==
    Object(x,
        [type |-> Literal(Get(x, "type"), Str("string")),
         caseSensitive |-> Default(Get(x, "caseSensitive"), Bool(TRUE), Boolean(Get(x, "caseSensitive")))])

ReplaceHookMetaType(x) ==
    IF x.t # "object" THEN Bad(x, "invalid_type")
    ELSE IF Get(x, "type") = Str("regex") THEN RegexMetaType(x)
    ELSE IF Get(x, "type") = Str("string") THEN StringMetaType(x)
    ELSE [value |-> x, issues |-> Prefix("type", {Issue("invalid_union")})]

ReplaceHookMetaShared(x) ==
    IF x.t # "object" THEN Bad(x, "invalid_type")
    ELSE Object(x,
        [isInputPatternScripted |->
             Default(Get(x, "isInputPatternScripted"), Bool(FALSE), Boolean(Get(x, "isInputPatternScripted"))),
         isOutputScripted |->
             Default(Get(x, "isOutputScripted"), Bool(FALSE), Boolean(Get(x, "isOutputScripted"))),
         priority |-> Default(Get(x, "priority"), Num(0), Number(Get(x, "priority")))])

\* z.intersection(left, right): both sides validate the same input, the
\* issues of both are kept and the two outputs are merged key by key.
ReplaceHookMetaSchema(x) ==
    LET l == ReplaceHookMetaType(x)
        r == ReplaceHookMetaShared(x)
    IN  [value |-> IF l.issues \cup r.issues = {} THEN Obj(l.value.f @@ r.value.f) ELSE x,
         issues |-> l.issues \cup r.issues]

ReplaceHookEntitySchema(x) ==
    IF x.t # "object" THEN Bad(x, "invalid_type")
    ELSE Object(x,
        [input |-> String(Get(x, "input")),
         meta |-> ReplaceHookMetaSchema(Get(x, "meta")),
         output |-> String(Get(x, "output"))])

\* z.array(ReplaceHookEntitySchema), with no default
HookArray(x) == Array(x, [i \in 1..Len(x.items) |-> ReplaceHookEntitySchema(x.items[i])])

ReplaceHookSchema(x) ==
    IF x.t # "object" THEN Bad(x, "invalid_type")
    ELSE Object(x,
        [display |-> HookArray(Get(x, "display")),
         input |-> HookArray(Get(x, "input")),
         output |-> HookArray(Get(x, "output")),
         request |-> HookArray(Get(x, "request"))])

(***************************************************************************)
(* Executables/Executable                                                  *)
(***************************************************************************)
DefaultTimeout == 3

\* schema.prefault(d): undefined is replaced by d before validation.
Prefault(x, d) == IF x = Undef THEN d ELSE x

RuntimeSettingObject(x) ==
    IF x.t # "object" THEN Bad(x, "invalid_type")
    ELSE Object(x,
        [mem |-> Optional(Get(x, "mem"), positiveInteger(Get(x, "mem"))),
         timout |-> Default(Get(x, "timout"), Num(DefaultTimeout), positiveInteger(Get(x, "timout")))])

RuntimeSetting(x) == RuntimeSettingObject(Prefault(x, EmptyObj))

ScriptSettingObject(x) ==
    IF x.t # "object" THEN Bad(x, "invalid_type")
    ELSE Object(x,
        [runtimeSetting |-> RuntimeSetting(Get(x, "runtimeSetting")),
         replaceHooks |-> ReplaceHookSchema(Get(x, "replaceHooks"))])

ScriptSettingSchema(x) == ScriptSettingObject(Prefault(x, EmptyObj))

(***************************************************************************)
(* Character/Assets                                                        *)
(***************************************************************************)
AssetEntitySchema(x) ==
    IF x.t # "object" THEN Bad(x, "invalid_type")
    ELSE Object(x,
        [mimeType |-> String(Get(x, "mimeType")),
         name |-> String(Get(x, "name")),
         data |-> FileSchema(Get(x, "data"))])

AssetArray(x) == Array(x, [i \in 1..Len(x.items) |-> AssetEntitySchema(x.items[i])])

\* The assets array without its refinement.
UniqueAssets_NoRefine(x) == AssetArray(x)

\* z.array(AssetEntitySchema).refine(unique("name"))
UniqueAssets(x) == Refine(AssetArray(x), unique("name", AssetArray(x).value))

AssetsSettingSchema(x) ==
    IF x.t # "object" THEN Bad(x, "invalid_type")
    ELSE Object(x, [assets |-> UniqueAssets(Get(x, "assets"))])

(***************************************************************************)
(* Character/Message                                                       *)
(***************************************************************************)
RoleSchema(x) == Enum(x, {"user", "assistant", "system"})

TextContentSchema(x) ==
    Object(x,
        [type |-> Literal(Get(x, "type"), Str("text")),
         data |-> String(Get(x, "data"))])

FileContentSchema(x) ==
    Object(x,
        [type |-> Literal(Get(x, "type"), Str("file")),
         data |-> FileSchema(Get(x, "data")),
         mimeType |-> String(Get(x, "mimeType"))])

MessageContent(x) ==
    IF x.t # "object" THEN Bad(x, "invalid_type")
    ELSE IF Get(x, "type") = Str("text") THEN TextContentSchema(x)
    ELSE IF Get(x, "type") = Str("file") THEN FileContentSchema(x)
    ELSE [value |-> x, issues |-> Prefix("type", {Issue("invalid_union")})]

\* The default fixed once, when the schema is built, and not read again.
Timestamp_Constant(x, now) == Default(x, Num(0), Number(x))

\* The timestamp read from the clock whether or not one was supplied.
Timestamp_Regenerate(x, now) == OK(Num(now))

\* z.number().default(Date.now): the default is read from the clock at
\* the time of validation.
Timestamp(x, now) == Default(x, Num(now), Number(x))

Inlays(x) == Default(x, Arr(<<>>), UniqueAssets(x))

MessageSchema(x, now) ==
    IF x.t # "object" THEN Bad(x, "invalid_type")
    ELSE Object(x,
        [id |-> String(Get(x, "id")),
         chatId |-> String(Get(x, "chatId")),
         role |-> RoleSchema(Get(x, "role")),
         content |-> MessageContent(Get(x, "content")),
         timestamp |-> Timestamp(Get(x, "timestamp"), now),
         inlays |-> Inlays(Get(x, "inlays"))])

(***************************************************************************)
(* Character/Chat                                                          *)
(***************************************************************************)
MessageArray(x, now) == Array(x, [i \in 1..Len(x.items) |-> MessageSchema(x.items[i], now)])

\* z.array(MessageSchema).refine(unique("id"))
UniqueMessages(x, now) == Refine(MessageArray(x, now), unique("id", MessageArray(x, now).value))

ChatSchema(x, now) ==
    IF x.t # "object" THEN Bad(x, "invalid_type")
    ELSE Object(x,
        [id |-> String(Get(x, "id")),
         characterId |-> String(Get(x, "characterId")),
         messages |-> UniqueMessages(Get(x, "messages"), now),
         title |-> Default(Get(x, "title"), Str("Chat"), String(Get(x, "title"))),
         createdAt |-> Timestamp(Get(x, "createdAt"), now),
         updatedAt |-> Timestamp(Get(x, "updatedAt"), now),
         lorebook |-> OptionalOverDefault(Get(x, "lorebook"), LorebookEntries(Get(x, "lorebook")))])

(***************************************************************************)
(* Character/Character                                                     *)
(***************************************************************************)
SpecVersion == 0

CharacterPromptDataSchema(x) ==
    IF x.t # "object" THEN Bad(x, "invalid_type")
    ELSE Object(x,
        [description |-> String(Get(x, "description")),
         authorsNote |-> Optional(Get(x, "authorsNote"), String(Get(x, "authorsNote"))),
         lorebook |-> LorebookDataSchema(Get(x, "lorebook"))])

CharacterSchema(x) ==
    IF x.t # "object" THEN Bad(x, "invalid_type")
    ELSE Object(x,
        [specVersion |-> Literal(Get(x, "specVersion"), Num(SpecVersion)),
         id |-> String(Get(x, "id")),
         name |-> String(Get(x, "name")),
         description |-> String(Get(x, "description")),
         avatarUrl |-> Optional(Get(x, "avatarUrl"), String(Get(x, "avatarUrl"))),
         prompt |-> CharacterPromptDataSchema(Get(x, "prompt")),
         executables |-> ScriptSettingSchema(Get(x, "executables")),
         metadata |-> MetaSchema(Get(x, "metadata")),
         assets |-> AssetsSettingSchema(Get(x, "assets"))])

(***************************************************************************)
(* utils: apply(schema, data) returns schema.parse(data), which returns    *)
(* the parsed value or throws one error holding every issue.               *)
(***************************************************************************)
\* index.ts: the schema of every version, under the version.
characterMap == [k \in {SpecVersion} |-> "CharacterSchema"]

Schemas ==
    {"positiveInteger", "MetaSchema", "ReplaceHookSchema", "ScriptSettingSchema",
     "LorebookDataSchema", "AssetsSettingSchema", "MessageSchema", "ChatSchema",
     "CharacterSchema", "LorebookConditionSchema", "Uint8ArraySchema"}

parse(s, data, now) ==
    CASE s = "positiveInteger" -> positiveInteger(data)
      [] s = "MetaSchema" -> MetaSchema(data)
      [] s = "ReplaceHookSchema" -> ReplaceHookSchema(data)
      [] s = "ScriptSettingSchema" -> ScriptSettingSchema(data)
      [] s = "LorebookDataSchema" -> LorebookDataSchema(data)
      [] s = "AssetsSettingSchema" -> AssetsSettingSchema(data)
      [] s = "MessageSchema" -> MessageSchema(data, now)
      [] s = "ChatSchema" -> ChatSchema(data, now)
      [] s = "CharacterSchema" -> CharacterSchema(data)
      [] s = "LorebookConditionSchema" -> LorebookConditionSchema(data)
      [] s = "Uint8ArraySchema" -> Uint8ArraySchema(data)

apply(s, data, now) ==
    LET r == parse(s, data, now)
    IN  IF r.issues = {}
        THEN [status |-> "returned", value |-> r.value, issues |-> {}]
        ELSE [status |-> "thrown", value |-> Undef, issues |-> r.issues]

(***************************************************************************)
(* The plain inputs tried.  Strip drops the keys marked absent.            *)
(***************************************************************************)
Strip(f) == Obj([k \in {j \in DOMAIN f : f[j] # Undef} |-> f[k]])

SeqsUpTo(S, n) == UNION {[1..k -> S] : k \in 0..n}

Names == {"a", "b"}

Odd(n) == n % 2 # 0

\* Integers and halves around 0, Number.MAX_SAFE_INTEGER and its successor.
NumberSamples ==
    {Num(n) : n \in -MaxNum..MaxNum} \cup {Frac(n, 2) : n \in {k \in -MaxNum..MaxNum : Odd(k)}}
    \cup {Pow53Plus(-1), Pow53Plus(0)}

PositiveIntegerInputs == NumberSamples \cup {Str("1"), Undef, Null}

MetaInputs ==
    {Strip([author |-> a, license |-> l, version |-> v, distributedOn |-> d, additionalInfo |-> i]) :
        a \in {Undef, Str("a"), Num(1)}, l \in {Undef, Str("MIT"), Num(1)},
        v \in {Undef, Str("1.0")}, d \in {Undef, Str("http://x/a.png")}, i \in {Undef, Num(1)}}
    \cup {Undef, Str("a")}

\* new Uint8Array(new ArrayBuffer(8)), new Uint8Array(new SharedArrayBuffer(8))
\* and values that are no Uint8Array.
Uint8ArrayInputs ==
    {Bytes("ArrayBuffer"), Bytes("SharedArrayBuffer"), Str("not a uint8array"), EmptyObj, Null, Undef}

AlwaysCondition == Obj([type |-> Str("always")])

ConditionTags == {"regex_match", "plain_text_match", "always"}

\* Conditions of every tag, of an unknown tag, of a tag that is no string
\* and of no tag, with and without the fields of the other variants.
ConditionInputs ==
    {Strip([type |-> t, regexPattern |-> p, regexFlags |-> g, text |-> x]) :
        t \in {Str(k) : k \in ConditionTags} \cup {Str("never"), Num(1), Undef},
        p \in {Undef, Str("^a"), Num(1)}, g \in {Undef, Str("g"), Num(1)},
        x \in {Undef, Str("a"), Num(1)}}
    \cup {Undef, Str("always")}

EntryMin(id) == Obj([id |-> Str(id), name |-> Str("n"), content |-> Str("c")])

EntryFull(id) ==
    Obj([id |-> Str(id), name |-> Str("n"), content |-> Str("c"),
         condition |-> Arr(<<AlwaysCondition>>),
         multipleConditionResolveStrategy |-> Str("any"),
         priority |-> Frac(1, 2), enabled |-> Bool(TRUE)])

ValidEntryInputs == {EntryMin(i) : i \in Names} \cup {EntryFull(i) : i \in Names}

\* An entry without its required content.
BadEntry == Obj([id |-> Str("a"), name |-> Str("n")])

EntryArrays == {Arr(q) : q \in SeqsUpTo(ValidEntryInputs \cup {BadEntry}, MaxLen)}

ConfigInputs == {Obj([tokenLimit |-> v]) : v \in NumberSamples \cup {Str("1")}} \cup {EmptyObj}

LorebookDataInputs ==
    {Strip([config |-> c, data |-> d]) : c \in ConfigInputs \cup {Undef}, d \in EntryArrays \cup {Undef}}

HookMeta(type) == Obj([type |-> Str(type)])

Hook(meta) == Obj([input |-> Str("i"), meta |-> meta, output |-> Str("o")])

ValidHooks == {Hook(HookMeta("string")), Hook(Obj([type |-> Str("regex"), flag |-> Str("g"), priority |-> Num(1)]))}

\* A hook whose meta has a tag of no variant.
BadHook == Hook(HookMeta("glob"))

HookArrays == {Arr(<<>>), Arr(<<BadHook>>)} \cup {Arr(<<h>>) : h \in ValidHooks}

ReplaceHookInputs ==
    {Strip([display |-> d, input |-> i, output |-> o, request |-> r]) :
        d \in HookArrays \cup {Undef}, i \in HookArrays \cup {Undef},
        o \in {Arr(<<>>), Undef}, r \in {Arr(<<>>), Undef}}

EmptyHooks == Obj([display |-> Arr(<<>>), input |-> Arr(<<>>), output |-> Arr(<<>>), request |-> Arr(<<>>)])

SomeHooks ==
    Obj([display |-> Arr(<<Hook(HookMeta("string"))>>), input |-> Arr(<<>>),
         output |-> Arr(<<>>), request |-> Arr(<<>>)])

RuntimeInputs ==
    {Strip([mem |-> m, timout |-> t]) : m \in {Undef, Num(1), Num(0)}, t \in {Undef, Num(2), Frac(1, 2)}}

ScriptSettingInputs ==
    {Strip([runtimeSetting |-> r, replaceHooks |-> h]) :
        r \in RuntimeInputs \cup {Undef}, h \in {Undef, EmptyObj, EmptyHooks, SomeHooks}}
    \cup {Undef}

Asset(name, data) == Obj([mimeType |-> Str("image/png"), name |-> Str(name), data |-> data])

ValidAssets == {Asset(n, d) : n \in Names, d \in {Str("http://x/a.png"), Bytes("ArrayBuffer")}}

\* An asset whose data is neither a URL nor binary.
BadAsset == Asset("a", Str("not-a-url"))

AssetArrays == {Arr(q) : q \in SeqsUpTo(ValidAssets \cup {BadAsset}, MaxLen)}

AssetsSettingInputs == {Obj([assets |-> a]) : a \in AssetArrays} \cup {EmptyObj}

TextContent == Obj([type |-> Str("text"), data |-> Str("hello")])

FileContent == Obj([type |-> Str("file"), data |-> Bytes("ArrayBuffer"), mimeType |-> Str("image/png")])

Message(id, role, content, ts, inlays) ==
    Strip([id |-> Str(id), chatId |-> Str("chat1"), role |-> Str(role), content |-> content,
           timestamp |-> ts, inlays |-> inlays])

ValidMessages ==
    {Message(i, "user", TextContent, Undef, Undef) : i \in Names}
    \cup {Message(i, "assistant", FileContent, Num(0), Arr(<<Asset("a", Str("http://x/a.png"))>>)) : i \in Names}

\* A message whose role is not one of the three.
BadMessage == Message("a", "bot", TextContent, Undef, Undef)

MessageInputs == ValidMessages \cup {BadMessage, Message("a", "user", TextContent, Str("now"), Undef)}

MessageArrays == {Arr(q) : q \in SeqsUpTo(ValidMessages \cup {BadMessage}, MaxLen)}

ChatInputs ==
    {Strip([id |-> Str("chat1"), characterId |-> Str("c1"), messages |-> m, title |-> t,
            createdAt |-> c, updatedAt |-> u, lorebook |-> l]) :
        m \in MessageArrays, t \in {Undef, Str("T")}, c \in {Undef, Num(0)}, u \in {Undef, Num(0)},
        l \in {Undef, Arr(<<>>), Arr(<<EntryMin("a"), EntryMin("a")>>),
              Arr(<<EntryMin("a"), EntryMin("b")>>)}}

ValidLorebook(d) == Strip([config |-> Obj([tokenLimit |-> Num(1)]), data |-> d])

ValidPrompts ==
    {Obj([description |-> Str("p"), lorebook |-> ValidLorebook(Undef)]),
     Obj([description |-> Str("p"), authorsNote |-> Str("note"),
          lorebook |-> ValidLorebook(Arr(<<EntryMin("a"), EntryFull("b")>>))])}

\* The prompt of the minimal character of the tests, and one with no lorebook.
BadPrompts ==
    {Obj([description |-> Str("p"), lorebook |-> EmptyObj]), Obj([description |-> Str("p")])}

ValidExecutables ==
    {Obj([replaceHooks |-> EmptyHooks]),
     Obj([runtimeSetting |-> Obj([mem |-> Num(1)]), replaceHooks |-> SomeHooks])}

BadExecutables == {EmptyObj, Obj([replaceHooks |-> EmptyObj])}

ValidMetas == {EmptyObj, Obj([author |-> Str("a"), license |-> Str("MIT")])}

BadMetas == {Obj([author |-> Num(1)])}

ValidAssetsSettings == {Obj([assets |-> Arr(<<>>)]), Obj([assets |-> Arr(<<Asset("a", Bytes("ArrayBuffer")), Asset("b", Bytes("ArrayBuffer"))>>)])}

BadAssetsSettings == {Obj([assets |-> Arr(<<Asset("a", Bytes("ArrayBuffer")), Asset("a", Bytes("ArrayBuffer"))>>)])}

\* For every key of a Character, the values tried that meet its constraints.
Good ==
    [specVersion |-> {Num(0)},
     id |-> {Str("c1")},
     name |-> {Str("Test")},
     description |-> {Str("desc")},
     avatarUrl |-> {Undef, Str("a")},
     prompt |-> ValidPrompts,
     executables |-> ValidExecutables,
     metadata |-> ValidMetas,
     assets |-> ValidAssetsSettings]

\* For every key of a Character, the values tried that break its constraints.
Broken ==
    [specVersion |-> {Undef, Num(1), Str("0")},
     id |-> {Undef},
     name |-> {},
     description |-> {},
     avatarUrl |-> {},
     prompt |-> BadPrompts \cup {Undef},
     executables |-> BadExecutables \cup {Undef},
     metadata |-> BadMetas \cup {Undef},
     assets |-> BadAssetsSettings \cup {Undef}]

CharacterOf(v, i, n, d, a, p, e, m, s) ==
    Strip([specVersion |-> v, id |-> i, name |-> n, description |-> d, avatarUrl |-> a,
           prompt |-> p, executables |-> e, metadata |-> m, assets |-> s])

ValidCharacterInputs ==
    {CharacterOf(v, i, n, d, a, p, e, m, s) :
        v \in Good.specVersion, i \in Good.id, n \in Good.name, d \in Good.description,
        a \in Good.avatarUrl, p \in Good.prompt, e \in Good.executables, m \in Good.metadata,
        s \in Good.assets}

CharacterInputs ==
    {CharacterOf(v, i, n, d, a, p, e, m, s) :
        v \in Good.specVersion \cup Broken.specVersion, i \in Good.id \cup Broken.id,
        n \in Good.name \cup Broken.name, d \in Good.description \cup Broken.description,
        a \in Good.avatarUrl \cup Broken.avatarUrl, p \in Good.prompt \cup Broken.prompt,
        e \in Good.executables \cup Broken.executables, m \in Good.metadata \cup Broken.metadata,
        s \in Good.assets \cup Broken.assets}

Inputs(s) ==
    CASE s = "positiveInteger" -> PositiveIntegerInputs
      [] s = "MetaSchema" -> MetaInputs
      [] s = "ReplaceHookSchema" -> ReplaceHookInputs
      [] s = "ScriptSettingSchema" -> ScriptSettingInputs
      [] s = "LorebookDataSchema" -> LorebookDataInputs
      [] s = "AssetsSettingSchema" -> AssetsSettingInputs
      [] s = "MessageSchema" -> MessageInputs
      [] s = "ChatSchema" -> ChatInputs
      [] s = "CharacterSchema" -> CharacterInputs
      [] s = "LorebookConditionSchema" -> ConditionInputs
      [] s = "Uint8ArraySchema" -> Uint8ArrayInputs

(***************************************************************************)
(* The declaration generator.  Strings are sequences of characters.        *)
(***************************************************************************)
LowerCase == <<"a", "b", "c", "d", "e", "f", "g", "h", "i", "j", "k", "l", "m", "n", "o", "p", "q", "r", "s", "t", "u", "v", "w", "x", "y", "z">>

UpperCase == <<"A", "B", "C", "D", "E", "F", "G", "H", "I", "J", "K", "L", "M", "N", "O", "P", "Q", "R", "S", "T", "U", "V", "W", "X", "Y", "Z">>

Digits == <<"0", "1", "2", "3", "4", "5", "6", "7", "8", "9">>

\* The other characters used, in the order of the root collation.
Marks == <<"_", "-", ".", "/", "$">>

Range(q) == {q[i] : i \in 1..Len(q)}

IndexOf(q, c) == CHOOSE i \in 1..Len(q) : q[i] = c

\* String.prototype.toUpperCase, of one character.
toUpperCase(c) == IF c \in Range(LowerCase) THEN UpperCase[IndexOf(LowerCase, c)] ELSE c

endsWith(s, suffix) ==
    /\ Len(s) >= Len(suffix)
    /\ SubSeq(s, Len(s) - Len(suffix) + 1, Len(s)) = suffix

SCHEMA_EXPORT_SUFFIX == <<"S", "c", "h", "e", "m", "a">>

TypeSuffix == <<"T", "y", "p", "e">>

RESERVED_TYPE_NAMES ==
    {<<"U", "i", "n", "t", "8", "A", "r", "r", "a", "y">>,
     <<"F", "i", "l", "e">>,
     <<"B", "l", "o", "b">>,
     <<"A", "r", "r", "a", "y", "B", "u", "f", "f", "e", "r">>,
     <<"D", "a", "t", "e">>,
     <<"M", "a", "p">>,
     <<"S", "e", "t">>,
     <<"P", "r", "o", "m", "i", "s", "e">>,
     <<"E", "r", "r", "o", "r">>}

\* /^[A-Za-z_$][A-Za-z0-9_$]*$/
IsTsIdentifier(name) ==
    /\ Len(name) > 0
    /\ name[1] \in Range(LowerCase) \cup Range(UpperCase) \cup {"_", "$"}
    /\ \A i \in 2..Len(name) :
           name[i] \in Range(LowerCase) \cup Range(UpperCase) \cup Range(Digits) \cup {"_", "$"}

Derived(name) == [ok |-> TRUE, name |-> name, failure |-> "none"]

Underivable(failure) == [ok |-> FALSE, name |-> <<>>, failure |-> failure]

UpperFirst(base) == <<toUpperCase(base[1])>> \o Tail(base)

\* deriveTypeName that lets the reserved names through.
deriveTypeName_KeepReserved(schemaExportName) ==
    LET base == IF endsWith(schemaExportName, SCHEMA_EXPORT_SUFFIX)
                THEN SubSeq(schemaExportName, 1, Len(schemaExportName) - Len(SCHEMA_EXPORT_SUFFIX))
                ELSE schemaExportName
    IN  IF Len(schemaExportName) = 0 THEN Underivable("empty export name")
        ELSE IF Len(base) = 0 THEN Underivable("empty")
        ELSE IF ~IsTsIdentifier(UpperFirst(base)) THEN Underivable("invalid identifier")
        ELSE Derived(UpperFirst(base))

\* deriveTypeName: the type name of a schema export, or the invariant that
\* failed.
deriveTypeName(schemaExportName) ==
    LET base == IF endsWith(schemaExportName, SCHEMA_EXPORT_SUFFIX)
                THEN SubSeq(schemaExportName, 1, Len(schemaExportName) - Len(SCHEMA_EXPORT_SUFFIX))
                ELSE schemaExportName
    IN  IF Len(schemaExportName) = 0 THEN Underivable("empty export name")
        ELSE IF Len(base) = 0 THEN Underivable("empty")
        ELSE IF UpperFirst(base) \in RESERVED_TYPE_NAMES THEN Derived(UpperFirst(base) \o TypeSuffix)
        ELSE IF ~IsTsIdentifier(UpperFirst(base)) THEN Underivable("invalid identifier")
        ELSE Derived(UpperFirst(base))

\* The first weight of a character in the collation: the marks, then the
\* digits, then the letters without regard to their case.
Primary(c) ==
    IF c \in Range(Marks) THEN IndexOf(Marks, c)
    ELSE IF c \in Range(Digits) THEN 10 + IndexOf(Digits, c)
    ELSE IF c \in Range(LowerCase) THEN 100 + IndexOf(LowerCase, c)
    ELSE 100 + IndexOf(UpperCase, c)

\* The third weight: a lower-case letter before its upper-case letter.
Tertiary(c) == IF c \in Range(UpperCase) THEN 1 ELSE 0

RECURSIVE CompareBy(_, _, _)
\* The lexicographic order of two sequences of weights: -1, 0 or 1.
CompareBy(a, b, level) ==
    IF a = <<>> /\ b = <<>> THEN 0
    ELSE IF a = <<>> THEN -1
    ELSE IF b = <<>> THEN 1
    ELSE LET wa == IF level = 1 THEN Primary(Head(a)) ELSE Tertiary(Head(a))
             wb == IF level = 1 THEN Primary(Head(b)) ELSE Tertiary(Head(b))
         IN  IF wa < wb THEN -1
             ELSE IF wa > wb THEN 1
             ELSE CompareBy(Tail(a), Tail(b), level)

\* String.prototype.localeCompare: the strings are compared by the first
\* weights of all their characters, and by case only when these are equal.
localeCompare(a, b) ==
    IF CompareBy(a, b, 1) # 0 THEN CompareBy(a, b, 1) ELSE CompareBy(a, b, 3)

RECURSIVE Insert(_, _, _)
\* x put into the sorted sequence q, after the items that do not come
\* after it (the sort is stable).
Insert(q, x, key) ==
    IF q = <<>> THEN <<x>>
    ELSE IF localeCompare(x[key], Head(q)[key]) < 0 THEN <<x>> \o q
    ELSE <<Head(q)>> \o Insert(Tail(q), x, key)

RECURSIVE SortBy(_, _)
\* Array.prototype.sort((a, b) => a[key].localeCompare(b[key]))
SortBy(q, key) ==
    IF q = <<>> THEN <<>>
    ELSE Insert(SortBy(SubSeq(q, 1, Len(q) - 1), key), q[Len(q)], key)

(***************************************************************************)
(* The source tree: modules with their path under SRC_DIR, their exported  *)
(* bindings and whether their import succeeds.  An export is a schema, a   *)
(* value that is no schema ("other"), a custom schema whose type cannot be *)
(* resolved ("unsupported") or a schema that cannot be printed             *)
(* ("unprintable").                                                        *)
(***************************************************************************)
\* The module of the version 0 Character.
CharacterV0 ==
     [path |-> <<"v", "0", "/", "C", "h", "a", "r", "a", "c", "t", "e", "r", "/", "C", "h", "a", "r", "a", "c", "t", "e", "r", ".", "t", "s">>,
      exports |-> {[name |-> <<"C", "h", "a", "r", "a", "c", "t", "e", "r", "S", "c", "h", "e", "m", "a">>, kind |-> "schema"],
                   [name |-> <<"C", "h", "a", "r", "a", "c", "t", "e", "r", "P", "r", "o", "m", "p", "t", "D", "a", "t", "a", "S", "c", "h", "e", "m", "a">>, kind |-> "schema"]},
      loads |-> TRUE]

\* A module of a version 1 Character.
CharacterV1 ==
     [path |-> <<"v", "1", "/", "C", "h", "a", "r", "a", "c", "t", "e", "r", "/", "C", "h", "a", "r", "a", "c", "t", "e", "r", ".", "t", "s">>,
      exports |-> {[name |-> <<"C", "h", "a", "r", "a", "c", "t", "e", "r", "S", "c", "h", "e", "m", "a">>, kind |-> "schema"],
                   [name |-> <<"_", "i", "d", "S", "c", "h", "e", "m", "a">>, kind |-> "schema"]},
      loads |-> TRUE]

\* utils.ts: FileSchema and Uint8ArraySchema derive reserved names.
Utils ==
     [path |-> <<"v", "0", "/", "u", "t", "i", "l", "s", ".", "t", "s">>,
      exports |-> {[name |-> <<"F", "i", "l", "e", "S", "c", "h", "e", "m", "a">>, kind |-> "schema"],
                   [name |-> <<"I", "m", "a", "g", "e", "U", "R", "L", "S", "c", "h", "e", "m", "a">>, kind |-> "schema"],
                   [name |-> <<"U", "i", "n", "t", "8", "A", "r", "r", "a", "y", "S", "c", "h", "e", "m", "a">>, kind |-> "schema"]},
      loads |-> TRUE]

\* A module at the root whose exports differ in the case of the first letter.
MixedCase ==
     [path |-> <<"a", ".", "t", "s">>,
      exports |-> {[name |-> <<"a", "l", "p", "h", "a", "S", "c", "h", "e", "m", "a">>, kind |-> "schema"],
                   [name |-> <<"Z", "e", "t", "a", "S", "c", "h", "e", "m", "a">>, kind |-> "schema"]},
      loads |-> TRUE]

\* A module with a Schema export that is no schema.
NotASchema ==
     [path |-> <<"B", ".", "t", "s">>,
      exports |-> {[name |-> <<"f", "o", "o", "S", "c", "h", "e", "m", "a">>, kind |-> "other"],
                   [name |-> <<"B", "a", "r", "S", "c", "h", "e", "m", "a">>, kind |-> "schema"]},
      loads |-> TRUE]

\* A module with a Schema export that is no schema and one named Schema alone.
TwoFaults ==
     [path |-> <<"c", "/", "T", "w", "o", ".", "t", "s">>,
      exports |-> {[name |-> <<"f", "o", "o", "S", "c", "h", "e", "m", "a">>, kind |-> "other"],
                   [name |-> <<"S", "c", "h", "e", "m", "a">>, kind |-> "schema"]},
      loads |-> TRUE]

\* Two exports that differ in the case of the first letter.
SameTypeByCase ==
     [path |-> <<"c", "/", "D", "u", "p", ".", "t", "s">>,
      exports |-> {[name |-> <<"f", "o", "o", "S", "c", "h", "e", "m", "a">>, kind |-> "schema"],
                   [name |-> <<"F", "o", "o", "S", "c", "h", "e", "m", "a">>, kind |-> "schema"]},
      loads |-> TRUE]

\* File is reserved and becomes FileType, which FileTypeSchema derives too.
SameTypeByReserved ==
     [path |-> <<"v", "0", "/", "D", "u", "p", ".", "t", "s">>,
      exports |-> {[name |-> <<"F", "i", "l", "e", "S", "c", "h", "e", "m", "a">>, kind |-> "schema"],
                   [name |-> <<"F", "i", "l", "e", "T", "y", "p", "e", "S", "c", "h", "e", "m", "a">>, kind |-> "schema"]},
      loads |-> TRUE]

\* A module without schema exports.
NoSchemas ==
     [path |-> <<"v", "0", "/", "E", "m", "p", "t", "y", ".", "t", "s">>,
      exports |-> {[name |-> <<"h", "e", "l", "p", "e", "r">>, kind |-> "other"]},
      loads |-> TRUE]

\* A module whose import throws.
Unloadable ==
     [path |-> <<"v", "0", "/", "B", "r", "o", "k", "e", "n", ".", "t", "s">>,
      exports |-> {},
      loads |-> FALSE]

\* A module that holds a custom schema of no known type.
CustomUnresolved ==
     [path |-> <<"b", "/", "C", "u", "s", "t", "o", "m", ".", "t", "s">>,
      exports |-> {[name |-> <<"X", "S", "c", "h", "e", "m", "a">>, kind |-> "schema"],
                   [name |-> <<"h", "e", "l", "p", "e", "r">>, kind |-> "unsupported"]},
      loads |-> TRUE]

\* A module with a schema that the declaration printer throws on.
Unprintable ==
     [path |-> <<"b", "/", "P", "r", "i", "n", "t", ".", "t", "s">>,
      exports |-> {[name |-> <<"Y", "S", "c", "h", "e", "m", "a">>, kind |-> "unprintable"]},
      loads |-> TRUE]

\* Exports whose derived names are no identifiers.
BadIdentifier ==
     [path |-> <<"c", "/", "N", "a", "m", "e", "s", ".", "t", "s">>,
      exports |-> {[name |-> <<"a", "-", "b", "S", "c", "h", "e", "m", "a">>, kind |-> "schema"],
                   [name |-> <<"9", "S", "c", "h", "e", "m", "a">>, kind |-> "schema"]},
      loads |-> TRUE]

\* A module beside the directory of its name: v0/Character.ts with v0/Character/.
BesideItsDirectory ==
     [path |-> <<"v", "0", "/", "C", "h", "a", "r", "a", "c", "t", "e", "r", ".", "t", "s">>,
      exports |-> {[name |-> <<"P", "r", "o", "m", "p", "t", "S", "c", "h", "e", "m", "a">>, kind |-> "schema"]},
      loads |-> TRUE]

\* A module three directories deep, with nothing beside it: v0/A/B/M.ts.
ThreeLevelsDeep ==
     [path |-> <<"v", "0", "/", "A", "/", "B", "/", "M", ".", "t", "s">>,
      exports |-> {[name |-> <<"M", "S", "c", "h", "e", "m", "a">>, kind |-> "schema"]},
      loads |-> TRUE]

Modules ==
    {CharacterV0,
     CharacterV1,
     Utils,
     MixedCase,
     NotASchema,
     TwoFaults,
     SameTypeByCase,
     SameTypeByReserved,
     NoSchemas,
     Unloadable,
     CustomUnresolved,
     Unprintable,
     BadIdentifier,
     BesideItsDirectory,
     ThreeLevelsDeep}

MaxModules == 3

\* The source trees tried: up to MaxModules modules, and the empty tree.
Trees == {t \in SUBSET Modules : Cardinality(t) <= MaxModules}

\* The orders in which a set can be enumerated.
Enumerations(S) == {q \in [1..Cardinality(S) -> S] : Range(q) = S}

Dot == <<".">>

Slash == <<"/">>

DtsSuffix == <<".", "d", ".", "t", "s">>

IndexDts == <<"i", "n", "d", "e", "x", ".", "d", ".", "t", "s">>

CharacterSchemaName == <<"C", "h", "a", "r", "a", "c", "t", "e", "r", "S", "c", "h", "e", "m", "a">>

CharacterModuleTail == <<"/", "C", "h", "a", "r", "a", "c", "t", "e", "r", "/", "C", "h", "a", "r", "a", "c", "t", "e", "r">>

LastSlash(p) == IF "/" \in Range(p) THEN CHOOSE i \in 1..Len(p) : p[i] = "/" /\ \A j \in (i + 1)..Len(p) : p[j] # "/" ELSE 0

\* path.posix.dirname, basename and join
dirname(p) == IF LastSlash(p) = 0 THEN Dot ELSE SubSeq(p, 1, LastSlash(p) - 1)

basename(p) == SubSeq(p, LastSlash(p) + 1, Len(p))

join(dir, name) == IF dir = Dot THEN name ELSE dir \o Slash \o name

\* relPosix.replace(/\.ts$/, "")
modulePosixPath(relFs) == SubSeq(relFs, 1, Len(relFs) - 3)

\* /^v\d+$/
IsVersionDir(d) ==
    /\ Len(d) >= 2
    /\ d[1] = "v"
    /\ \A i \in 2..Len(d) : d[i] \in Range(Digits)

RECURSIVE ToNumber(_)
\* Number(m[1]), of a string of digits
ToNumber(digits) ==
    IF digits = <<>> THEN 0
    ELSE 10 * ToNumber(SubSeq(digits, 1, Len(digits) - 1)) + (IndexOf(Digits, digits[Len(digits)]) - 1)

\* /^v\d+\/Character\/Character$/
IsCharacterModule(p) ==
    /\ endsWith(p, CharacterModuleTail)
    /\ IsVersionDir(SubSeq(p, 1, Len(p) - Len(CharacterModuleTail)))

\* The strings left in the order in which they were found.
Sort_AsFound(q) == q

\* sort((a, b) => a.localeCompare(b)), of strings
Sort(q) == [i \in 1..Len(q) |-> SortBy([j \in 1..Len(q) |-> [s |-> q[j]]], "s")[i].s]

(***************************************************************************)
(* Errors and the steps of one module.                                     *)
(***************************************************************************)
NoError == [kind |-> "none", file |-> <<>>, name |-> <<>>]

\* An error with the module and the export or type that its message names
\* (<<>> when the message names none).
Failure(kind, file, name) == [kind |-> kind, file |-> file, name |-> name]

isZodType(export) == export.kind # "other"

Min(S) == CHOOSE i \in S : \A j \in S : i <= j

\* The exports under a Schema name that pass for schemas whatever they are.
FailingExports_DerivationOnly(moduleExports) ==
    {i \in 1..Len(moduleExports) :
        /\ endsWith(moduleExports[i].name, SCHEMA_EXPORT_SUFFIX)
        /\ ~deriveTypeName(moduleExports[i].name).ok}

\* The exports on which the loop of extractSchemasOrThrow throws: those
\* under a Schema name that are no schema or have no type name.
FailingExports(moduleExports) ==
    {i \in 1..Len(moduleExports) :
        /\ endsWith(moduleExports[i].name, SCHEMA_EXPORT_SUFFIX)
        /\ \/ ~isZodType(moduleExports[i])
           \/ ~deriveTypeName(moduleExports[i].name).ok}

\* No entry is looked up in the set of the names seen.
DuplicateTypeNames_Unchecked(entries) == {}

\* The entries whose type name an entry before them has.
DuplicateTypeNames(entries) ==
    {i \in 1..Len(entries) : \E j \in 1..(i - 1) : entries[j].typeName = entries[i].typeName}

\* extractSchemasOrThrow: the exports are visited in the order of the
\* module's enumeration, the entries are sorted by export name and then
\* checked for a type name derived twice.
extractSchemasOrThrow(moduleExports, fileContext) ==
    LET failing == FailingExports(moduleExports)
        pushed == SelectSeq(moduleExports, LAMBDA e : endsWith(e.name, SCHEMA_EXPORT_SUFFIX))
        entries == SortBy([i \in 1..Len(pushed) |->
                              [typeName |-> deriveTypeName(pushed[i].name).name,
                               exportName |-> pushed[i].name,
                               schema |-> pushed[i].kind]], "exportName")
        twice == DuplicateTypeNames(entries)
    IN  IF failing # {}
        THEN LET e == moduleExports[Min(failing)]
             IN  [error |-> IF ~isZodType(e)
                            THEN Failure("not a schema", fileContext, e.name)
                            ELSE Failure(deriveTypeName(e.name).failure, <<>>, e.name),
                  entries |-> <<>>]
        ELSE IF twice # {}
        THEN [error |-> Failure("duplicate type name", fileContext, entries[Min(twice)].typeName),
              entries |-> <<>>]
        ELSE [error |-> NoError, entries |-> entries]

\* buildOverridesOrThrow over collectAllSchemasFromModuleExports: every
\* schema of the module, under a Schema name or not, must have a type.
buildOverridesOrThrow(moduleExports, fileContext) ==
    IF \E i \in 1..Len(moduleExports) : moduleExports[i].kind = "unsupported"
    THEN Failure("unsupported custom schema", fileContext, <<>>)
    ELSE NoError

\* A declaration file that declares nothing.
TypesFile_Empty(entries) == [kind |-> "types", declarations |-> <<>>]

\* The declaration file of a module: a type and a schema constant for
\* every entry, in the order of the entries.
TypesFile(entries) ==
    [kind |-> "types",
     declarations |-> [i \in 1..Len(entries) |->
                          [typeName |-> entries[i].typeName, exportName |-> entries[i].exportName]]]

\* A schema that cannot be printed goes unnoticed.
generateTypesForModule_Unchecked(entries, srcPath) ==
    [error |-> NoError, content |-> TypesFile(entries)]

\* generateTypesForModule, wrapped by main in a TypeGenerationError
generateTypesForModule(entries, srcPath) ==
    IF \E i \in 1..Len(entries) : entries[i].schema = "unprintable"
    THEN [error |-> Failure("generate", srcPath, <<>>), content |-> TypesFile(<<>>)]
    ELSE [error |-> NoError, content |-> TypesFile(entries)]

generateDirectoryIndexDts(dirModuleNames, dirSubdirNames) ==
    [kind |-> "index", modules |-> dirModuleNames, subdirs |-> dirSubdirNames]

generateParentBarrelDts(folderName) == [kind |-> "barrel", folder |-> folderName]

\* generateMainIndexDts: an entry of characterMap for every version, and the
\* default export, which is characterMap itself; with no version the file
\* exports nothing.
generateMainIndexDts(versions) ==
    [kind |-> "main",
     versions |-> versions,
     default |-> IF versions = <<>> THEN [binding |-> "none"] ELSE [binding |-> "characterMap"]]

\* fs.writeFile with the flag wx: a file that exists is kept as it is.
writeFile_KeepExisting(files, p, content) ==
    [q \in DOMAIN files \cup {p} |-> IF q \in DOMAIN files THEN files[q] ELSE content]

\* fs.writeFile: the file is created or replaced.
writeFile(files, p, content) ==
    [q \in DOMAIN files \cup {p} |-> IF q = p THEN content ELSE files[q]]

\* A Map<string, Set<string>>: its entries in the order of insertion,
\* every value in the order of insertion too.
MapHas(map, k) == \E i \in 1..Len(map) : map[i].key = k

MapGet(map, k) == map[CHOOSE i \in 1..Len(map) : map[i].key = k].value

MapKeys(map) == [i \in 1..Len(map) |-> map[i].key]

\* ensureDirEntry on one of the two maps of the directory graph
ensureDirEntry(map, dir) ==
    IF MapHas(map, dir) THEN map ELSE Append(map, [key |-> dir, value |-> <<>>])

\* map.get(dir).add(name), after ensureDirEntry
AddTo(map, dir, name) ==
    [i \in 1..Len(ensureDirEntry(map, dir)) |->
        LET e == ensureDirEntry(map, dir)[i]
        IN  IF e.key = dir /\ name \notin Range(e.value)
            THEN [key |-> e.key, value |-> Append(e.value, name)]
            ELSE e]

RECURSIVE Dedupe(_)
\* [...new Set(q)]: the first occurrence of every item, in order
Dedupe(q) ==
    IF q = <<>> THEN <<>>
    ELSE LET rest == Dedupe(SubSeq(q, 1, Len(q) - 1))
         IN  IF q[Len(q)] \in Range(rest) THEN rest ELSE Append(rest, q[Len(q)])

(***************************************************************************)
(* The resolution of type overrides.  A schema node is described by what   *)
(* the generator reads of it: its class, the format tag and the stored     *)
(* check descriptors and class of its definition, the tsType of its        *)
(* metadata, and its predicate: what the predicate returns on each of the  *)
(* values it is probed with, and which of the substrings looked for its    *)
(* source text contains.                                                   *)
(***************************************************************************)
\* The values given to a predicate: sampleValueForCtor of the three known
\* constructors, and {}, null and "not-a-match".
Samples == {"Uint8Array", "ArrayBuffer", "Date", "{}", "null", "not-a-match"}

\* What a call of the predicate comes to: true, a truthy value that is not
\* true, a falsy value, or an exception.
Outcomes == {"true", "truthy", "falsy", "throws"}

NoPredicate == [defined |-> FALSE]

Predicate(on, text) == [defined |-> TRUE, on |-> on, text |-> text]

\* (data) => data instanceof cls, the predicate of z.instanceof(cls)
InstanceofPredicate(cls) ==
    Predicate([s \in Samples |-> IF s = cls THEN "true" ELSE "falsy"], {"instanceof"})

\* unique(key): (i) => new Set(i.map((j) => j[key])).size === i.length.
\* The empty Uint8Array has map and gives true; the other values have no
\* map and the call throws.
UniquePredicate ==
    Predicate([s \in Samples |-> IF s = "Uint8Array" THEN "true" ELSE "throws"],
              {".size", "===", ".length"})

\* (v) => v?.length === 0, a refinement that wants an empty array
EmptyPredicate ==
    Predicate([s \in Samples |-> IF s = "Uint8Array" THEN "true" ELSE "falsy"], {"===", ".length"})

\* (a) => a.filter((x) => x instanceof Item).length === 1, a refinement
\* of an array whose text holds instanceof
CountPredicate ==
    Predicate([s \in Samples |-> IF s = "Uint8Array" THEN "falsy" ELSE "throws"],
              {"instanceof", "===", ".length"})

\* (v) => v?.buffer, which returns the ArrayBuffer of a Uint8Array
BufferPredicate ==
    Predicate([s \in Samples |-> IF s = "Uint8Array" THEN "truthy" ELSE "falsy"], {})

\* (v) => isValid(v), a predicate that shows nothing of what it tests
OpaquePredicate == Predicate([s \in Samples |-> "falsy"], {})

\* (v) => Object.prototype.toString.call(v) === "[object Blob]"
TagPredicate == Predicate([s \in Samples |-> "falsy"], {"==="})

Predicates ==
    {NoPredicate,
     InstanceofPredicate("Uint8Array"),
     InstanceofPredicate("ArrayBuffer"),
     InstanceofPredicate("Date"),
     InstanceofPredicate("Blob"),
     UniquePredicate,
     EmptyPredicate,
     CountPredicate,
     BufferPredicate,
     OpaquePredicate,
     TagPredicate}

\* The values of meta.tsType tried: none, the empty string, a blank, B and
\* B between blanks.
TsTypes == {Undef, Str(<<>>), Str(<<" ">>), Str(<<"B">>), Str(<<" ", "B", " ">>)}

\* The stored check descriptors tried: none, or one instanceof check.
CheckLists ==
    {<<>>} \cup {<<[kind |-> "instanceof", cls |-> c]>> : c \in {"Uint8Array", "ArrayBuffer", "Date", "Blob"}}

SchemaNodes ==
    [class : {"ZodString", "ZodNumber", "ZodCustom"},
     format : {"none", "url", "safeint"},
     tsType : TsTypes,
     checks : CheckLists,
     cls : {"none", "Date", "Blob"},
     fn : Predicates]

RECURSIVE trimStart(_)
trimStart(s) == IF s # <<>> /\ Head(s) = " " THEN trimStart(Tail(s)) ELSE s

RECURSIVE trimEnd(_)
trimEnd(s) == IF s # <<>> /\ s[Len(s)] = " " THEN trimEnd(SubSeq(s, 1, Len(s) - 1)) ELSE s

\* String.prototype.trim
trim(s) == trimEnd(trimStart(s))

\* The type nodes: one parsed from a text, a reference to a named type, a
\* keyword; null when there is none.
NoTypeNode == [kind |-> "null"]

parseTypeNodeFromString(typeText) == [kind |-> "parsed", text |-> typeText]

createTypeReferenceNode(name) == [kind |-> "reference", name |-> name]

createKeywordTypeNode(keyword) == [kind |-> "keyword", keyword |-> keyword]

isProbablyZodCustom(n) == n.class = "ZodCustom"

\* getCustomPredicate: the function of the definition, or null
getCustomPredicate(n) == n.fn

\* pred(value) === true
IsTrue(pred, value) == pred.on[value] = "true"

\* Boolean(pred(value)), false when the call throws
Accepts(pred, value) == pred.on[value] \in {"true", "truthy"}

\* !pred(value), where a call that throws ends the expression around it
Rejects(pred, value) == pred.on[value] = "falsy"

matchesInstanceofViaDefChecks(n, ctor) ==
    \E i \in 1..Len(n.checks) : n.checks[i].kind = "instanceof" /\ n.checks[i].cls = ctor

knownCtors == <<"Uint8Array", "ArrayBuffer", "Date">>

\* The first of the constructors, in order, that is one of those that
\* match; "null" when none is.
FirstCtor(ctors, matching) ==
    IF \E i \in 1..Len(ctors) : ctors[i] \in matching
    THEN ctors[CHOOSE i \in 1..Len(ctors) :
                   ctors[i] \in matching /\ \A j \in 1..(i - 1) : ctors[j] \notin matching]
    ELSE "null"

\* detectInstanceofClass: the class of the definition; else the first known
\* constructor whose sample the predicate takes while it refuses {} and
\* null; else the first known constructor for which the text of the
\* predicate holds the constructor's name or "instanceof".
detectInstanceofClass(n) ==
    LET pred == getCustomPredicate(n)
        probed == {ctor \in Range(knownCtors) :
                      IsTrue(pred, ctor) /\ Rejects(pred, "{}") /\ Rejects(pred, "null")}
        named == {ctor \in Range(knownCtors) : ctor \in pred.text \/ "instanceof" \in pred.text}
    IN  IF n.cls # "none" THEN n.cls
        ELSE IF ~pred.defined THEN "null"
        ELSE IF probed # {} THEN FirstCtor(knownCtors, probed)
        ELSE FirstCtor(knownCtors, named)

\* The explicit tsType of the node counts: a string that is not blank.
HasTsType(n) == n.tsType.t = "string" /\ trim(n.tsType.s) # <<>>

\* The fallback of getCustomOverrideTypeNode: the predicate is probed with
\* the samples of Uint8Array and ArrayBuffer.
ProbedCandidate(n) ==
    LET pred == getCustomPredicate(n)
        matched == {ctor \in {"Uint8Array", "ArrayBuffer"} :
                       /\ Accepts(pred, ctor)
                       /\ Rejects(pred, "{}") /\ Rejects(pred, "null") /\ Rejects(pred, "not-a-match")}
    IN  IF ~pred.defined THEN "null" ELSE FirstCtor(<<"Uint8Array", "ArrayBuffer">>, matched)

\* The stored check descriptors are looked at before the tsType.
getCustomOverrideTypeNode_ChecksFirst(n) ==
    IF matchesInstanceofViaDefChecks(n, "Uint8Array") THEN createTypeReferenceNode("Uint8Array")
    ELSE IF matchesInstanceofViaDefChecks(n, "ArrayBuffer") THEN createTypeReferenceNode("ArrayBuffer")
    ELSE IF HasTsType(n) THEN parseTypeNodeFromString(trim(n.tsType.s))
    ELSE IF detectInstanceofClass(n) \in Range(knownCtors)
    THEN createTypeReferenceNode(detectInstanceofClass(n))
    ELSE IF ProbedCandidate(n) # "null" THEN createTypeReferenceNode(ProbedCandidate(n))
    ELSE NoTypeNode

getCustomOverrideTypeNode(n) ==
    IF HasTsType(n) THEN parseTypeNodeFromString(trim(n.tsType.s))
    ELSE IF matchesInstanceofViaDefChecks(n, "Uint8Array") THEN createTypeReferenceNode("Uint8Array")
    ELSE IF matchesInstanceofViaDefChecks(n, "ArrayBuffer") THEN createTypeReferenceNode("ArrayBuffer")
    ELSE IF detectInstanceofClass(n) \in Range(knownCtors)
    THEN createTypeReferenceNode(detectInstanceofClass(n))
    ELSE IF ProbedCandidate(n) # "null" THEN createTypeReferenceNode(ProbedCandidate(n))
    ELSE NoTypeNode

\* getFormatBasedType, with the formats tried: url of a string, safeint of a number
getFormatBasedType(n) ==
    IF n.format = "none" THEN NoTypeNode
    ELSE IF n.class = "ZodString" /\ n.format = "url" THEN createKeywordTypeNode("string")
    ELSE IF n.class = "ZodNumber" /\ n.format = "safeint" THEN createKeywordTypeNode("number")
    ELSE NoTypeNode

\* isLikelyRefinement, of the text of the predicate
isLikelyRefinement(pred) ==
    /\ "instanceof" \notin pred.text
    /\ pred.text \cap {"===", "!==", ".size", ".length"} # {}

\* What the loop of buildOverridesOrThrow does with one schema: it sets an
\* override, sets none, or throws.
Overridden(type) == [kind |-> "override", type |-> type]

NotOverridden == [kind |-> "none"]

Unsupported == [kind |-> "throws"]

resolveOverride(n) ==
    IF getFormatBasedType(n) # NoTypeNode THEN Overridden(getFormatBasedType(n))
    ELSE IF ~isProbablyZodCustom(n) THEN NotOverridden
    ELSE IF getCustomOverrideTypeNode(n) # NoTypeNode THEN Overridden(getCustomOverrideTypeNode(n))
    ELSE IF getCustomPredicate(n).defined /\ isLikelyRefinement(getCustomPredicate(n)) THEN NotOverridden
    ELSE Unsupported

(***************************************************************************)
(* The schema graph of a module: the values reachable from its exports,    *)
(* each at an address.  A value is a schema with its definition, an array  *)
(* with its items, or a plain object with its values and its property      *)
(* shape: none, an object, or a function of no parameters and the object   *)
(* it returns.  Primitives and functions, which walk leaves alone, are     *)
(* left out of the values.                                                 *)
(***************************************************************************)
MaxItems == 2   \* longest array of the graph
MaxValues == 1  \* most values of an object of the graph beside its shape
MaxStack == 10  \* the calls of walk that the call stack holds

\* The graphs tried hold a schema, its definition, an array, and one more
\* schema or array; their last component is Object.values(moduleExports).
Addresses == 1..4

NoShape == [addr |-> 0, lazy |-> FALSE]

SchemaValues == {[kind |-> "schema", def |-> 2]}

ArrayValues == [kind : {"array"}, items : SeqsUpTo(Addresses, MaxItems)]

ObjectValues ==
    [kind : {"object"},
     values : SeqsUpTo(Addresses, MaxValues),
     shape : {NoShape} \cup [addr : Addresses, lazy : BOOLEAN]]

\* The exports tried: the first schema, alone, before the array, or after
\* the last value.
ExportLists == {<<1>>, <<1, 3>>, <<4, 1>>}

Heaps ==
    {<<s, o, a, x, e>> : s \in SchemaValues, o \in ObjectValues, a \in ArrayValues,
                         x \in SchemaValues \cup ArrayValues, e \in ExportLists}

\* Object.values(moduleExports)
moduleExportValues(h) == h[Len(h)]

\* What a call walk(value) walks in turn.  Of a schema: its definition and
\* then, inside try, the shape of the definition or what the shape
\* returns.  Of an array: its items.  Of an object: its values that are no
\* functions.  The frame at address 0 is the loop over the exports.
Callees(h, a) ==
    IF a = 0 THEN moduleExportValues(h)
    ELSE IF h[a].kind = "schema"
    THEN IF h[h[a].def].shape # NoShape
         THEN <<h[a].def, h[h[a].def].shape.addr>>
         ELSE <<h[a].def>>
    ELSE IF h[a].kind = "array" THEN h[a].items
    ELSE IF h[a].shape # NoShape /\ ~h[a].shape.lazy
    THEN h[a].values \o <<h[a].shape.addr>>
    ELSE h[a].values

\* walk(value) returns at once: the schema is in found, or the object is
\* in visitedObjects.
Seen(a) ==
    \/ heap[a].kind = "schema" /\ a \in Range(found)
    \/ heap[a].kind = "object" /\ a \in visitedObjects

\* The frames whose call in progress is the walk of the shape, inside try.
InTry(frames) ==
    {k \in 1..Len(frames) :
        /\ frames[k].addr # 0
        /\ heap[frames[k].addr].kind = "schema"
        /\ frames[k].next = 3}

(***************************************************************************)
(* The state machine: the clock advances, a caller validates one plain     *)
(* input with one schema, and may validate the returned value again.       *)
(***************************************************************************)
NoResult == [status |-> "none", value |-> Undef, issues |-> {}]

\* No schema node is being resolved.
NoNode == [class |-> "none"]

\* The resolution has not run.
Unresolved == [kind |-> "unresolved"]

Init ==
    /\ clock = 0
    /\ schema = "none"
    /\ input = Undef
    /\ result = NoResult
    /\ round = 0
    /\ tree = {}
    /\ pc = "idle"
    /\ sourceFiles = <<>>
    /\ cursor = 1
    /\ dist = <<>>
    /\ dirModules = <<>>
    /\ dirSubdirs = <<>>
    /\ characterVersions = <<>>
    /\ generatedModules = <<>>
    /\ error = NoError
    /\ runs = 1
    /\ previous = [dist |-> <<>>, pc |-> "none"]
    /\ node = NoNode
    /\ override = Unresolved
    /\ heap = <<>>
    /\ stack = <<>>
    /\ found = <<>>
    /\ visitedObjects = {}
    /\ walk = "idle"

\* Date.now() moves on.
Tick ==
    /\ clock < MaxClock
    /\ clock' = clock + 1
    /\ UNCHANGED <<schema, input, result, round, genVars, overrideVars, walkVars>>

\* apply(schema, data) on a fresh plain input.
Validate(s) ==
    /\ round = 0
    /\ \E data \in Inputs(s) :
        /\ schema' = s
        /\ input' = data
        /\ result' = apply(s, data, clock)
        /\ round' = 1
    /\ UNCHANGED <<clock, genVars, overrideVars, walkVars>>

\* apply(schema, y) on the value y that the previous call returned.
Revalidate ==
    /\ round = 1
    /\ result.status = "returned"
    /\ input' = result.value
    /\ result' = apply(schema, result.value, clock)
    /\ round' = 2
    /\ UNCHANGED <<clock, schema, genVars, overrideVars, walkVars>>

Next ==
    \/ Tick
    \/ \E s \in Schemas : Validate(s)
    \/ Revalidate

Spec == Init /\ [][Next]_vars

TypeOK ==
    /\ clock \in 0..MaxClock
    /\ schema \in Schemas \cup {"none"}
    /\ round \in 0..2
    /\ result.status \in {"none", "returned", "thrown"}

(***************************************************************************)
(* The generator run: main() scans the tree, handles the modules one by    *)
(* one in the sorted order, and then writes the barrels, the entry         *)
(* declarations and the version barrels.  A thrown error ends the run.     *)
(* The run may be repeated on the same tree.                               *)
(***************************************************************************)
MaxRuns == 2

NoRun == [dist |-> <<>>, pc |-> "none"]

GenInit ==
    /\ clock = 0
    /\ schema = "none"
    /\ input = Undef
    /\ result = NoResult
    /\ round = 0
    /\ tree \in Trees
    /\ pc = "start"
    /\ sourceFiles = <<>>
    /\ cursor = 1
    /\ dist = <<>>
    /\ dirModules = <<>>
    /\ dirSubdirs = <<>>
    /\ characterVersions = <<>>
    /\ generatedModules = <<>>
    /\ error = NoError
    /\ runs = 1
    /\ previous = NoRun
    /\ node = NoNode
    /\ override = Unresolved
    /\ heap = <<>>
    /\ stack = <<>>
    /\ found = <<>>
    /\ visitedObjects = {}
    /\ walk = "idle"

\* The error is kept and the loop goes on with the next module.
Abort_Collect(e) ==
    /\ error' = e
    /\ cursor' = cursor + 1
    /\ pc' = "modules"
    /\ UNCHANGED <<tree, sourceFiles, dist, dirModules, dirSubdirs, characterVersions,
                   generatedModules, runs, previous>>

\* The error reaches the entry point, which reports it and exits with 1.
Abort(e) ==
    /\ error' = e
    /\ pc' = "failed"
    /\ UNCHANGED <<tree, sourceFiles, cursor, dist, dirModules, dirSubdirs, characterVersions,
                   generatedModules, runs, previous>>

\* glob finds the files in some order; main sorts them.
Scan ==
    /\ pc = "start"
    /\ IF tree = {}
       THEN Abort(Failure("no source files", <<>>, <<>>))
       ELSE /\ \E globbed \in Enumerations({m.path : m \in tree}) : sourceFiles' = Sort(globbed)
            /\ pc' = "modules"
            /\ UNCHANGED <<tree, cursor, dist, dirModules, dirSubdirs, characterVersions,
                           generatedModules, error, runs, previous>>
    /\ UNCHANGED <<clock, schema, input, result, round, overrideVars, walkVars>>

\* The directory graph after the module p was generated.
ModulesAfter(p) == AddTo(dirModules, dirname(p), basename(p))

SubdirsAfter(p) ==
    IF dirname(p) = Dot THEN ensureDirEntry(dirSubdirs, Dot)
    ELSE AddTo(ensureDirEntry(dirSubdirs, dirname(p)), dirname(dirname(p)), basename(dirname(p)))

VersionsAfter(p, entries) ==
    IF IsCharacterModule(p) /\ \E i \in 1..Len(entries) : entries[i].exportName = CharacterSchemaName
    THEN LET vDir == SubSeq(p, 1, Len(p) - Len(CharacterModuleTail))
         IN  Append(characterVersions, [version |-> ToNumber(Tail(vDir)), versionDir |-> vDir])
    ELSE characterVersions

\* One pass of the loop over sourceFiles: import, extractSchemasOrThrow,
\* buildOverridesOrThrow, generateTypesForModule, writeFile and the update
\* of the directory graph and of the versions.
ProcessModule ==
    /\ pc = "modules"
    /\ cursor <= Len(sourceFiles)
    /\ LET relFs == sourceFiles[cursor]
           m == CHOOSE x \in tree : x.path = relFs
           p == modulePosixPath(relFs)
       IN  IF ~m.loads THEN Abort(Failure("import", relFs, <<>>))
           ELSE \E moduleExports \in Enumerations(m.exports) :
               LET extracted == extractSchemasOrThrow(moduleExports, relFs)
                   overrides == buildOverridesOrThrow(moduleExports, relFs)
                   generated == generateTypesForModule(extracted.entries, relFs)
               IN  IF extracted.error # NoError THEN Abort(extracted.error)
                   ELSE IF extracted.entries = <<>>
                   THEN /\ cursor' = cursor + 1
                        /\ UNCHANGED <<tree, pc, sourceFiles, dist, dirModules, dirSubdirs,
                                       characterVersions, generatedModules, error, runs, previous>>
                   ELSE IF overrides # NoError THEN Abort(overrides)
                   ELSE IF generated.error # NoError THEN Abort(generated.error)
                   ELSE /\ dist' = writeFile(dist, p \o DtsSuffix, generated.content)
                        /\ generatedModules' = Append(generatedModules, p)
                        /\ dirModules' = IF dirname(p) = Dot THEN ModulesAfter(p)
                                         ELSE ensureDirEntry(ModulesAfter(p), dirname(dirname(p)))
                        /\ dirSubdirs' = SubdirsAfter(p)
                        /\ characterVersions' = VersionsAfter(p, extracted.entries)
                        /\ cursor' = cursor + 1
                        /\ UNCHANGED <<tree, pc, sourceFiles, error, runs, previous>>
    /\ UNCHANGED <<clock, schema, input, result, round, overrideVars, walkVars>>

\* [...allDirs].sort(...)
sortedDirs == Sort(Dedupe(MapKeys(dirModules) \o MapKeys(dirSubdirs)))

RECURSIVE WriteBarrels(_, _)
\* The loop over sortedDirs: the index of the directory, and for every
\* directory but "." the file of its name in its parent.
WriteBarrels(files, dirs) ==
    IF dirs = <<>> THEN files
    ELSE LET dir == Head(dirs)
             modules == Sort(MapGet(dirModules, dir))
             subs == Sort(MapGet(dirSubdirs, dir))
             indexed == writeFile(files, join(dir, IndexDts), generateDirectoryIndexDts(modules, subs))
             both == writeFile(indexed, join(dirname(dir), basename(dir) \o DtsSuffix),
                               generateParentBarrelDts(basename(dir)))
         IN  IF modules = <<>> /\ subs = <<>> THEN WriteBarrels(files, Tail(dirs))
             ELSE IF dir = Dot THEN WriteBarrels(indexed, Tail(dirs))
             ELSE WriteBarrels(both, Tail(dirs))

EmitDirectoryBarrels ==
    /\ pc = "modules"
    /\ cursor > Len(sourceFiles)
    /\ dist' = WriteBarrels(dist, sortedDirs)
    /\ pc' = "main"
    /\ UNCHANGED <<tree, sourceFiles, cursor, dirModules, dirSubdirs, characterVersions,
                   generatedModules, error, runs, previous>>
    /\ UNCHANGED <<clock, schema, input, result, round, overrideVars, walkVars>>

\* uniqueCharacterVersions: the versions in the order of their first
\* insertion, each with the directory set last.
uniqueCharacterVersions ==
    LET versions == Dedupe([i \in 1..Len(characterVersions) |-> characterVersions[i].version])
        last(v) == CHOOSE i \in 1..Len(characterVersions) :
                       /\ characterVersions[i].version = v
                       /\ \A j \in (i + 1)..Len(characterVersions) : characterVersions[j].version # v
    IN  [i \in 1..Len(versions) |->
            [version |-> versions[i], versionDir |-> characterVersions[last(versions[i])].versionDir]]

RECURSIVE SortByVersion(_)
\* sort((a, b) => a.version - b.version)
SortByVersion(q) ==
    IF q = <<>> THEN <<>>
    ELSE LET rest == SortByVersion(SubSeq(q, 1, Len(q) - 1))
             x == q[Len(q)]
             before == SelectSeq(rest, LAMBDA y : y.version <= x.version)
             after == SelectSeq(rest, LAMBDA y : y.version > x.version)
         IN  before \o <<x>> \o after

normalizedCharacterVersions == SortByVersion(uniqueCharacterVersions)

EmitMainIndex ==
    /\ pc = "main"
    /\ dist' = writeFile(dist, IndexDts, generateMainIndexDts(normalizedCharacterVersions))
    /\ pc' = "versions"
    /\ UNCHANGED <<tree, sourceFiles, cursor, dirModules, dirSubdirs, characterVersions,
                   generatedModules, error, runs, previous>>
    /\ UNCHANGED <<clock, schema, input, result, round, overrideVars, walkVars>>

versionDirs == Sort(SelectSeq(sortedDirs, IsVersionDir))

RECURSIVE WriteVersionBarrels(_, _)
WriteVersionBarrels(files, dirs) ==
    IF dirs = <<>> THEN files
    ELSE WriteVersionBarrels(
             writeFile(files, Head(dirs) \o DtsSuffix, generateParentBarrelDts(Head(dirs))),
             Tail(dirs))

EmitVersionBarrels ==
    /\ pc = "versions"
    /\ dist' = WriteVersionBarrels(dist, versionDirs)
    /\ pc' = "done"
    /\ UNCHANGED <<tree, sourceFiles, cursor, dirModules, dirSubdirs, characterVersions,
                   generatedModules, error, runs, previous>>
    /\ UNCHANGED <<clock, schema, input, result, round, overrideVars, walkVars>>

\* The generator is run again on the unchanged tree; what the run before
\* wrote is kept aside.
Rerun ==
    /\ pc \in {"done", "failed"}
    /\ runs < MaxRuns
    /\ previous' = [dist |-> dist, pc |-> pc]
    /\ runs' = runs + 1
    /\ pc' = "start"
    /\ sourceFiles' = <<>>
    /\ cursor' = 1
    /\ dist' = <<>>
    /\ dirModules' = <<>>
    /\ dirSubdirs' = <<>>
    /\ characterVersions' = <<>>
    /\ generatedModules' = <<>>
    /\ error' = NoError
    /\ UNCHANGED tree
    /\ UNCHANGED <<clock, schema, input, result, round, overrideVars, walkVars>>

GenNext ==
    \/ Scan
    \/ ProcessModule
    \/ EmitDirectoryBarrels
    \/ EmitMainIndex
    \/ EmitVersionBarrels
    \/ Rerun

GenSpec == GenInit /\ [][GenNext]_vars

(***************************************************************************)
(* The resolution of the override of one schema node, as the loop of       *)
(* buildOverridesOrThrow does it for every schema it is given.             *)
(***************************************************************************)
\* No validation has run.
ValidationIdle ==
    /\ clock = 0
    /\ schema = "none"
    /\ input = Undef
    /\ result = NoResult
    /\ round = 0

\* No generator run has started.
GeneratorIdle ==
    /\ tree = {}
    /\ pc = "idle"
    /\ sourceFiles = <<>>
    /\ cursor = 1
    /\ dist = <<>>
    /\ dirModules = <<>>
    /\ dirSubdirs = <<>>
    /\ characterVersions = <<>>
    /\ generatedModules = <<>>
    /\ error = NoError
    /\ runs = 1
    /\ previous = NoRun

\* No collection of schemas has started.
WalkIdle ==
    /\ heap = <<>>
    /\ stack = <<>>
    /\ found = <<>>
    /\ visitedObjects = {}
    /\ walk = "idle"

OverrideInit ==
    /\ ValidationIdle
    /\ GeneratorIdle
    /\ WalkIdle
    /\ node \in SchemaNodes
    /\ override = Unresolved

\* One pass of the loop of buildOverridesOrThrow, for the schema node.
Resolve ==
    /\ node # NoNode
    /\ override = Unresolved
    /\ override' = resolveOverride(node)
    /\ UNCHANGED <<node, clock, schema, input, result, round, genVars, walkVars>>



OverrideNext == Resolve

OverrideSpec == OverrideInit /\ [][OverrideNext]_vars

(***************************************************************************)
(* collectAllSchemasFromModuleExports on one module: the call stack of     *)
(* walk, a frame for every call in progress with the value walked and the  *)
(* index of the next value it walks.                                       *)
(***************************************************************************)
WalkInit ==
    /\ ValidationIdle
    /\ GeneratorIdle
    /\ node = NoNode
    /\ override = Unresolved
    /\ heap \in Heaps
    /\ stack = <<[addr |-> 0, next |-> 1]>>
    /\ found = <<>>
    /\ visitedObjects = {}
    /\ walk = "walking"

Top == stack[Len(stack)]

\* The call on top of the stack has a value left to walk.
Calling ==
    /\ walk = "walking"
    /\ Top.next <= Len(Callees(heap, Top.addr))

Callee == Callees(heap, Top.addr)[Top.next]

\* The stack when the call on top of it has made its next call.
Advanced == [stack EXCEPT ![Len(stack)].next = @ + 1]

\* walk(value) of a schema in found or of an object in visitedObjects:
\* it returns at once.
ReturnAtOnce ==
    /\ Calling
    /\ Len(stack) < MaxStack
    /\ Seen(Callee)
    /\ stack' = Advanced
    /\ UNCHANGED <<heap, found, visitedObjects, walk>>
    /\ UNCHANGED <<clock, schema, input, result, round, genVars, overrideVars>>

\* walk(value) of a schema not in found, of an array, or of an object not
\* in visitedObjects: the schema or the object is recorded and the call
\* starts on what the value holds.
Enter ==
    /\ Calling
    /\ Len(stack) < MaxStack
    /\ ~Seen(Callee)
    /\ stack' = Append(Advanced, [addr |-> Callee, next |-> 1])
    /\ found' = IF heap[Callee].kind = "schema" THEN Append(found, Callee) ELSE found
    /\ visitedObjects' = IF heap[Callee].kind = "object" THEN visitedObjects \cup {Callee}
                         ELSE visitedObjects
    /\ UNCHANGED <<heap, walk>>
    /\ UNCHANGED <<clock, schema, input, result, round, genVars, overrideVars>>

\* The call has walked all that the value holds and returns to its caller.
Return ==
    /\ walk = "walking"
    /\ Len(stack) > 1
    /\ Top.next > Len(Callees(heap, Top.addr))
    /\ stack' = SubSeq(stack, 1, Len(stack) - 1)
    /\ UNCHANGED <<heap, found, visitedObjects, walk>>
    /\ UNCHANGED <<clock, schema, input, result, round, genVars, overrideVars>>

\* The loop over the exports has ended: found is returned.
Finish ==
    /\ walk = "walking"
    /\ Len(stack) = 1
    /\ Top.next > Len(Callees(heap, Top.addr))
    /\ stack' = <<>>
    /\ walk' = "returned"
    /\ UNCHANGED <<heap, found, visitedObjects>>
    /\ UNCHANGED <<clock, schema, input, result, round, genVars, overrideVars>>

\* The call stack is full and the call throws a RangeError.  The innermost
\* call that is walking a shape catches it and goes on after its try.
Caught ==
    /\ Calling
    /\ Len(stack) = MaxStack
    /\ InTry(Advanced) # {}
    /\ stack' = SubSeq(Advanced, 1, CHOOSE k \in InTry(Advanced) : \A j \in InTry(Advanced) : j <= k)
    /\ UNCHANGED <<heap, found, visitedObjects, walk>>
    /\ UNCHANGED <<clock, schema, input, result, round, genVars, overrideVars>>

\* The call stack is full, the call throws a RangeError and no call in
\* progress catches it: collectAllSchemasFromModuleExports throws.
Thrown ==
    /\ Calling
    /\ Len(stack) = MaxStack
    /\ InTry(Advanced) = {}
    /\ stack' = <<>>
    /\ walk' = "thrown"
    /\ UNCHANGED <<heap, found, visitedObjects>>
    /\ UNCHANGED <<clock, schema, input, result, round, genVars, overrideVars>>

WalkNext ==
    \/ ReturnAtOnce
    \/ Enter
    \/ Return
    \/ Finish
    \/ Caught
    \/ Thrown

WalkSpec == WalkInit /\ [][WalkNext]_vars

(***************************************************************************)
(* Helpers of the properties.                                              *)
(***************************************************************************)
RECURSIVE Has(_, _)
\* The object v holds a value under the path p of keys.
Has(v, p) ==
    IF p = <<>> THEN TRUE
    ELSE v.t = "object" /\ Head(p) \in DOMAIN v.f /\ Has(v.f[Head(p)], Tail(p))

RECURSIVE At(_, _)
\* The value under the path p of keys of v.
At(v, p) == IF p = <<>> THEN v ELSE At(v.f[Head(p)], Tail(p))

Parent(p) == SubSeq(p, 1, Len(p) - 1)

\* The values of the key in the elements of an array, in order.
KeysOf(arr, key) == [i \in 1..Len(arr.items) |-> Get(arr.items[i], key)]

PairwiseDistinct(q) == \A i \in 1..Len(q) : \A j \in 1..Len(q) : i # j => q[i] # q[j]

Fresh(s) == schema = s /\ round = 1

(***************************************************************************)
(* C8                                                                      *)
(***************************************************************************)
\* C8: MetaSchema applied to an object with no fields returns exactly
\* { license: "ARR" }, so author, version, distributedOn and additionalInfo
\* are absent from the output, and a license that is supplied is returned as
\* it was given.
MetaDefaultsLicenseOnly ==
    (Fresh("MetaSchema") /\ input.t = "object") =>
        /\ input = EmptyObj =>
               result = [status |-> "returned", value |-> Obj([license |-> Str("ARR")]), issues |-> {}]
        /\ (result.status = "returned" /\ "license" \in DOMAIN input.f) =>
               result.value.f.license = input.f.license
        /\ result.status = "returned" =>
               \A k \in {"author", "version", "distributedOn", "additionalInfo"} :
                   k \notin DOMAIN input.f => k \notin DOMAIN result.value.f

MetaOfNoFieldsValidated ==
    /\ Fresh("MetaSchema")
    /\ input = EmptyObj
    /\ result.status = "returned"

(***************************************************************************)
(* C4                                                                      *)
(***************************************************************************)
\* The integers >= 1 among the numbers tried.
IsIntegerAtLeastOne(x) == (\E k \in 1..MaxNum : x = Num(k)) \/ x \in {Pow53Plus(-1), Pow53Plus(0)}

\* The integers from 1 to 2^53 - 1 among the numbers tried.
IsSafeIntegerAtLeastOne(x) == (\E k \in 1..MaxNum : x = Num(k)) \/ x = Pow53Plus(-1)

\* C4 (as claimed): positiveInteger accepts a value exactly when it is an
\* integer >= 1, and so does LorebookData.config.tokenLimit.
PositiveIntegerAcceptsEveryInteger ==
    /\ Fresh("positiveInteger") =>
           (result.status = "returned" <=> IsIntegerAtLeastOne(input))
    /\ (Fresh("LorebookDataSchema") /\ Has(input, <<"config", "tokenLimit">>)) =>
           ((\E i \in result.issues : i.path = <<"config", "tokenLimit">>)
               <=> ~IsIntegerAtLeastOne(input.f.config.f.tokenLimit))

\* C4 (amended): positiveInteger accepts a value exactly when it is an
\* integer from 1 to 2^53 - 1 (0, negative integers, non-integers,
\* non-numbers and the integers above 2^53 - 1 are rejected), and
\* LorebookData.config.tokenLimit has an issue exactly when it is not such
\* an integer, so tokenLimit = 0 makes the validation fail.
PositiveIntegerExact ==
    /\ Fresh("positiveInteger") =>
           (result.status = "returned" <=> IsSafeIntegerAtLeastOne(input))
    /\ (Fresh("LorebookDataSchema") /\ Has(input, <<"config", "tokenLimit">>)) =>
           /\ (\E i \in result.issues : i.path = <<"config", "tokenLimit">>)
                  <=> ~IsSafeIntegerAtLeastOne(input.f.config.f.tokenLimit)
           /\ ~IsSafeIntegerAtLeastOne(input.f.config.f.tokenLimit) => result.status = "thrown"

TokenLimitZeroRejected ==
    /\ Fresh("LorebookDataSchema")
    /\ Has(input, <<"config", "tokenLimit">>)
    /\ input.f.config.f.tokenLimit = Num(0)
    /\ result.status = "thrown"

(***************************************************************************)
(* C2                                                                      *)
(***************************************************************************)
WellShapedEntries(x) ==
    /\ Has(x, <<"data">>)
    /\ x.f.data.t = "array"
    /\ \A i \in 1..Len(x.f.data.items) : x.f.data.items[i] \in ValidEntryInputs

\* C2: for a LorebookData input whose entries are each well-shaped, two
\* entries with the same id make the validation fail with an issue on data,
\* pairwise distinct ids leave data without any issue and a returned value
\* holds the entries in the order of the input, none dropped; unique("id")
\* is true exactly when the ids are pairwise distinct.
LorebookIdsUnique ==
    (Fresh("LorebookDataSchema") /\ WellShapedEntries(input)) =>
        LET ids == KeysOf(input.f.data, "id")
        IN  /\ unique("id", input.f.data) <=> PairwiseDistinct(ids)
            /\ ~PairwiseDistinct(ids) =>
                   /\ result.status = "thrown"
                   /\ [path |-> <<"data">>, code |-> "custom"] \in result.issues
            /\ PairwiseDistinct(ids) =>
                   /\ \A i \in result.issues : Head(i.path) # "data"
                   /\ result.status = "returned" => KeysOf(result.value.f.data, "id") = ids

DuplicateIdsRejected ==
    /\ Fresh("LorebookDataSchema")
    /\ WellShapedEntries(input)
    /\ Len(input.f.data.items) >= 2
    /\ ~PairwiseDistinct(KeysOf(input.f.data, "id"))
    /\ result.status = "thrown"

(***************************************************************************)
(* C3                                                                      *)
(***************************************************************************)
WellShapedAssets(x) ==
    /\ Has(x, <<"assets">>)
    /\ x.f.assets.t = "array"
    /\ \A i \in 1..Len(x.f.assets.items) : x.f.assets.items[i] \in ValidAssets

\* C3: for an AssetsSetting input whose assets are each well-shaped, the
\* validation returns exactly when the names of the assets are pairwise
\* distinct (the empty sequence included) and fails when two assets share
\* a name.
AssetNamesUnique ==
    (Fresh("AssetsSettingSchema") /\ WellShapedAssets(input)) =>
        (result.status = "returned" <=> PairwiseDistinct(KeysOf(input.f.assets, "name")))

DistinctAssetNamesAccepted ==
    /\ Fresh("AssetsSettingSchema")
    /\ WellShapedAssets(input)
    /\ Len(input.f.assets.items) >= 2
    /\ result.status = "returned"

(***************************************************************************)
(* C5, C6, C7                                                              *)
(***************************************************************************)
HookKinds == {"display", "input", "output", "request"}

SuppliedHooksValid(x) ==
    \A k \in DOMAIN x.f :
        /\ x.f[k].t = "array"
        /\ \A i \in 1..Len(x.f[k].items) : x.f[k].items[i] \in ValidHooks

\* C5: ReplaceHookSchema applied to an object with no fields returns an
\* object holding display, input, output and request, each an empty
\* sequence, and each of the four is filled with the empty sequence when it
\* is absent, whichever of the others are supplied.
ReplaceHookKindsDefaultEmpty ==
    (Fresh("ReplaceHookSchema") /\ input.t = "object" /\ SuppliedHooksValid(input)) =>
        /\ result.status = "returned"
        /\ \A k \in HookKinds :
               /\ k \in DOMAIN result.value.f
               /\ k \notin DOMAIN input.f => result.value.f[k] = Arr(<<>>)

\* C6: LorebookDataSchema applied to an object with no fields returns a
\* value whose data is the empty sequence and whose config is present.
LorebookDataOfNoFields ==
    (Fresh("LorebookDataSchema") /\ input = EmptyObj) =>
        /\ result.status = "returned"
        /\ Get(result.value, "data") = Arr(<<>>)
        /\ "config" \in DOMAIN result.value.f

\* C7: ScriptSettingSchema applied to an object with no fields returns a
\* value whose runtimeSetting is present with timout = 3 and without mem.
ScriptSettingOfNoFields ==
    (Fresh("ScriptSettingSchema") /\ input = EmptyObj) =>
        /\ result.status = "returned"
        /\ Has(result.value, <<"runtimeSetting", "timout">>)
        /\ result.value.f.runtimeSetting.f.timout = Num(DefaultTimeout)
        /\ ~Has(result.value, <<"runtimeSetting", "mem">>)

(***************************************************************************)
(* C9                                                                      *)
(***************************************************************************)
\* C9: validating again, with the same schema, a value that a validation
\* returned succeeds and returns a value equal to it, whatever the clock
\* reads by then: the timestamps filled in by the first validation are kept.
RevalidationIsIdentity ==
    round = 2 => /\ result.status = "returned"
                 /\ result.value = input

ChatRevalidatedLater ==
    /\ round = 2
    /\ schema = "ChatSchema"
    /\ result.status = "returned"
    /\ result.value.f.createdAt # Num(clock)
    /\ Len(result.value.f.messages.items) >= 1

(***************************************************************************)
(* C10                                                                     *)
(***************************************************************************)
\* The keys of a Character input whose value breaks the key's constraints.
BrokenKeys(x) == {k \in DOMAIN Good : Get(x, k) \notin Good[k]}

ListsBrokenKeys ==
    /\ result.status = "thrown" => (result.value = Undef /\ result.issues # {})
    /\ result.status = "returned" => result.issues = {}
    /\ (Fresh("CharacterSchema") /\ input.t = "object") =>
           {Head(i.path) : i \in result.issues} = BrokenKeys(input)
    /\ (Fresh("MetaSchema") /\ input.t = "object") =>
           {i.path : i \in result.issues} = {<<k>> : k \in {j \in DOMAIN input.f : input.f[j].t # "string"}}

\* A LorebookData input whose data is an array of entries.
HoldsEntries(x) == Has(x, <<"data">>) /\ x.f.data.t = "array"

MalformedEntries(x) == {i \in 1..Len(x.f.data.items) : x.f.data.items[i] \notin ValidEntryInputs}

RequiredPaths ==
    {<<"specVersion">>, <<"id">>, <<"name">>, <<"description">>, <<"prompt">>,
     <<"metadata">>, <<"assets">>, <<"assets", "assets">>,
     <<"prompt", "description">>, <<"prompt", "lorebook">>,
     <<"prompt", "lorebook", "config">>, <<"prompt", "lorebook", "config", "tokenLimit">>,
     <<"executables", "replaceHooks">>}
    \cup {<<"executables", "replaceHooks", k>> : k \in HookKinds}

\* The fields of a Character that the schema fills in when they are absent.
DefaultedPaths ==
    {<<"metadata", "license">>, <<"executables", "runtimeSetting">>,
     <<"executables", "runtimeSetting", "timout">>, <<"prompt", "lorebook", "data">>}

\* The fields of a Character that may be absent.
OptionalPaths ==
    {<<"avatarUrl">>, <<"prompt", "authorsNote">>, <<"executables", "runtimeSetting", "mem">>}
    \cup {<<"metadata", k>> : k \in {"author", "version", "distributedOn", "additionalInfo"}}

OptionalEntryKeys == {"multipleConditionResolveStrategy", "priority", "enabled"}

Lacks(x, p) == ~Has(x, p) /\ Has(x, Parent(p))

DefaultsPresent(out) ==
    /\ \A p \in DefaultedPaths : Has(out, p)
    /\ \A i \in 1..Len(out.f.prompt.f.lorebook.f.data.items) :
           "condition" \in DOMAIN out.f.prompt.f.lorebook.f.data.items[i].f
    /\ \A i \in 1..Len(out.f.executables.f.replaceHooks.f.display.items) :
           {"priority", "isInputPatternScripted", "isOutputScripted"}
               \subseteq DOMAIN out.f.executables.f.replaceHooks.f.display.items[i].f.meta.f

OptionalsStayAbsent(in, out) ==
    /\ \A p \in OptionalPaths : ~Has(in, p) => ~Has(out, p)
    /\ Has(in, <<"prompt", "lorebook", "data">>) =>
           \A i \in 1..Len(in.f.prompt.f.lorebook.f.data.items) : \A k \in OptionalEntryKeys :
               k \notin DOMAIN in.f.prompt.f.lorebook.f.data.items[i].f
                   => k \notin DOMAIN out.f.prompt.f.lorebook.f.data.items[i].f

IsStr(x, key) == Has(x, <<key>>) /\ x.f[key].t = "string"

AbsentOrStr(x, key) == ~Has(x, <<key>>) \/ x.f[key].t = "string"

\* The input has the full shape of the variant that its tag names.
FullVariant(x) ==
    /\ x.t = "object"
    /\ \/ Get(x, "type") = Str("regex_match") /\ IsStr(x, "regexPattern") /\ AbsentOrStr(x, "regexFlags")
       \/ Get(x, "type") = Str("plain_text_match") /\ IsStr(x, "text")
       \/ Get(x, "type") = Str("always")

VariantKeys(tag) ==
    CASE tag = "regex_match" -> {"type", "regexPattern", "regexFlags"}
      [] tag = "plain_text_match" -> {"type", "text"}
      [] tag = "always" -> {"type"}

\* C11: a LorebookCondition is returned exactly when its type is one of
\* regex_match, plain_text_match and always and it has the full shape of
\* that variant (regexPattern for regex_match, text for plain_text_match):
\* an unknown or absent tag and a known tag without its required field are
\* thrown, whatever fields of other variants the input has, and the value
\* returned keeps the tag and holds the keys of that variant alone.
ConditionMatchesItsVariant ==
    Fresh("LorebookConditionSchema") =>
        /\ result.status = "returned" <=> FullVariant(input)
        /\ result.status = "returned" =>
               /\ result.value.f.type = input.f.type
               /\ DOMAIN result.value.f = DOMAIN input.f \cap VariantKeys(input.f.type.s)
               /\ \A k \in DOMAIN result.value.f : result.value.f[k] = input.f[k]

\* A regex_match condition without regexPattern that has the text of a
\* plain_text_match is thrown.
RegexWithoutPatternRejected ==
    /\ Fresh("LorebookConditionSchema")
    /\ input = Obj([type |-> Str("regex_match"), text |-> Str("a")])
    /\ result.status = "thrown"
    /\ \E i \in result.issues : i.path = <<"regexPattern">>

(***************************************************************************)
(* Timestamps default to the clock reading of the call.                    *)
(***************************************************************************)
TimestampKeys(s) ==
    CASE s = "MessageSchema" -> {"timestamp"}
      [] s = "ChatSchema" -> {"createdAt", "updatedAt"}

\* The value v was returned for the plain input x by a call made when the
\* clock read now: a supplied timestamp is kept, an omitted one is now.
FilledAt(s, x, v, now) ==
    /\ \A k \in TimestampKeys(s) :
           v.f[k] = IF Has(x, <<k>>) THEN x.f[k] ELSE Num(now)
    /\ s = "ChatSchema" =>
           \A i \in 1..Len(x.f.messages.items) :
               v.f.messages.items[i].f.timestamp =
                   IF Has(x.f.messages.items[i], <<"timestamp">>)
                   THEN x.f.messages.items[i].f.timestamp ELSE Num(now)

OmitsTimestamp(s, x) == \E k \in TimestampKeys(s) : ~Has(x, <<k>>)

\* C12: every call that validates a Message or a Chat and returns gives
\* each omitted timestamp (Message.timestamp, Chat.createdAt,
\* Chat.updatedAt) the clock reading of that call and returns each supplied
\* one unchanged, and the same input with an omitted timestamp validated
\* at any other clock reading gives a different value.
TimestampDefaultsReadTheClock ==
    [][\A s \in {"MessageSchema", "ChatSchema"} :
          (round = 0 /\ round' = 1 /\ schema' = s /\ result'.status = "returned") =>
              /\ FilledAt(s, input', result'.value, clock')
              /\ OmitsTimestamp(s, input') =>
                     \A c \in (0..MaxClock) \ {clock'} :
                         apply(s, input', c).value # result'.value]_vars

\* A message without a timestamp was validated after the clock had moved
\* on, and holds the later reading.
MessageStampedLater ==
    /\ Fresh("MessageSchema")
    /\ ~Has(input, <<"timestamp">>)
    /\ result.status = "returned"
    /\ result.value.f.timestamp = Num(MaxClock)

(***************************************************************************)
(* Uint8ArraySchema                                                        *)
(***************************************************************************)
\* C13: Uint8ArraySchema returns for a Uint8Array over an ArrayBuffer and
\* throws for a Uint8Array over a SharedArrayBuffer and for every value
\* that is no Uint8Array.
Uint8ArrayOverArrayBufferOnly ==
    Fresh("Uint8ArraySchema") =>
        (result.status = "returned" <=> input = Bytes("ArrayBuffer"))

(***************************************************************************)
(* characterMap                                                            *)
(***************************************************************************)
\* C14: for every key k of characterMap, the schema characterMap[k]
\* returns only for an input whose specVersion is the number k: an input
\* whose specVersion is absent or is anything else is thrown, with an
\* issue on specVersion.
VersionTableKeyedBySpecVersion ==
    \A k \in DOMAIN characterMap :
        Fresh(characterMap[k]) =>
            /\ result.status = "returned" => Get(input, "specVersion") = Num(k)
            /\ Get(input, "specVersion") # Num(k) =>
                   /\ result.status = "thrown"
                   /\ \E i \in result.issues : i.path = <<"specVersion">>

\* A Character of version 1, valid in everything else, is thrown by the
\* schema under the key 0 for its specVersion alone.
OtherVersionRejected ==
    /\ Fresh(characterMap[0])
    /\ Get(input, "specVersion") = Num(1)
    /\ result.status = "thrown"
    /\ \A i \in result.issues : i.path = <<"specVersion">>

(***************************************************************************)
(* The generator: helpers of the properties.                               *)
(***************************************************************************)
\* The path of the declaration file of a module.
DeclarationOf(m) == modulePosixPath(m.path) \o DtsSuffix

\* The run is past the loop over the modules.
PastModules == pc \in {"main", "versions", "done"}

\* The run was ended by an error thrown while the module m was handled.
FailedAt(m) == pc = "failed" /\ sourceFiles # <<>> /\ sourceFiles[cursor] = m.path

SchemaExports(m) == {e \in m.exports : endsWith(e.name, SCHEMA_EXPORT_SUFFIX)}

NonSchemas(m) == {e \in SchemaExports(m) : e.kind = "other"}

\* The export name without the suffix, its first letter in upper case.
Stem(name) ==
    LET base == SubSeq(name, 1, Len(name) - Len(SCHEMA_EXPORT_SUFFIX))
    IN  IF base = <<>> THEN <<>> ELSE <<toUpperCase(base[1])>> \o Tail(base)

\* The schema exports of m for which no type name can be derived.
Nameless(m) ==
    {e \in SchemaExports(m) : e.kind # "other" /\ ~IsTsIdentifier(Stem(e.name))}

(***************************************************************************)
(* C15                                                                     *)
(***************************************************************************)
\* C15 (as claimed): whenever the tree holds a module that loads and has an
\* export under a Schema name that is no schema, the run that has ended
\* has failed with the error that names that export and that module, and
\* no declaration file of that module is written.
NonSchemaExportAlwaysNamed ==
    \A m \in tree :
        (m.loads /\ NonSchemas(m) # {}) =>
            /\ DeclarationOf(m) \notin DOMAIN dist
            /\ pc \in {"done", "failed"} =>
                   /\ pc = "failed"
                   /\ error.kind = "not a schema"
                   /\ error.file = m.path
                   /\ error.name \in {e.name : e \in NonSchemas(m)}

\* C15 (amended): whenever the tree holds a module that loads and has an
\* export under a Schema name that is no schema, the run never gets past
\* the modules and never writes a declaration file of that module; the run
\* that reaches the module fails on it, and the error names the module
\* and such an export unless an export of the module without a type name
\* was enumerated before it, whose error the run then fails with.
NonSchemaExportFailsTheRun ==
    \A m \in tree :
        (m.loads /\ NonSchemas(m) # {}) =>
            /\ ~PastModules
            /\ DeclarationOf(m) \notin DOMAIN dist
            /\ (pc = "modules" /\ cursor <= Len(sourceFiles)) =>
                   \E i \in cursor..Len(sourceFiles) : sourceFiles[i] = m.path
            /\ FailedAt(m) =>
                   \/ /\ error.kind = "not a schema"
                      /\ error.file = m.path
                      /\ error.name \in {e.name : e \in NonSchemas(m)}
                   \/ /\ error.kind \in {"empty", "invalid identifier"}
                      /\ error.name \in {e.name : e \in Nameless(m)}
            /\ (FailedAt(m) /\ Nameless(m) = {}) => error.kind = "not a schema"

\* The run wrote the declarations of a.ts and then failed on B.ts, naming
\* its export fooSchema.
FooSchemaOfBNamed ==
    /\ pc = "failed"
    /\ error = Failure("not a schema", NotASchema.path, <<"f", "o", "o", "S", "c", "h", "e", "m", "a">>)
    /\ DeclarationOf(MixedCase) \in DOMAIN dist
    /\ DeclarationOf(NotASchema) \notin DOMAIN dist

(***************************************************************************)
(* C16                                                                     *)
(***************************************************************************)
\* The type names that two distinct schema exports of m both derive.
SharedTypeNames(m) ==
    {deriveTypeName(e.name).name : e \in
        {x \in SchemaExports(m) :
            /\ deriveTypeName(x.name).ok
            /\ \E y \in SchemaExports(m) :
                   y.name # x.name /\ deriveTypeName(y.name) = deriveTypeName(x.name)}}

\* C16: whenever the tree holds a module that loads and has two distinct
\* schema exports deriving the same type name (fooSchema and FooSchema,
\* or FileSchema and FileTypeSchema), the run never gets past the modules
\* and never writes a declaration file of that module, and the run that
\* reaches the module fails on it: with the error of the duplicate, which
\* names the module and the type name, when nothing else is wrong with
\* the exports of the module.
SameTypeNameFailsTheModule ==
    \A m \in tree :
        (m.loads /\ SharedTypeNames(m) # {}) =>
            /\ ~PastModules
            /\ DeclarationOf(m) \notin DOMAIN dist
            /\ (pc = "modules" /\ cursor <= Len(sourceFiles)) =>
                   \E i \in cursor..Len(sourceFiles) : sourceFiles[i] = m.path
            /\ (FailedAt(m) /\ NonSchemas(m) = {} /\ Nameless(m) = {}) =>
                   /\ error.kind = "duplicate type name"
                   /\ error.file = m.path
                   /\ error.name \in SharedTypeNames(m)

\* The run failed on v0/Dup.ts for FileType, derived by FileSchema and by
\* FileTypeSchema, after it had written the declarations of another module.
FileTypeDerivedTwice ==
    /\ pc = "failed"
    /\ error = Failure("duplicate type name", SameTypeByReserved.path,
                       <<"F", "i", "l", "e", "T", "y", "p", "e">>)
    /\ dist # <<>>
    /\ DeclarationOf(SameTypeByReserved) \notin DOMAIN dist

(***************************************************************************)
(* C17                                                                     *)
(***************************************************************************)
\* The declarations written by this run.
Declarations ==
    UNION {Range(dist[f].declarations) : f \in {g \in DOMAIN dist : dist[g].kind = "types"}}

\* C17: for every schema export of the tree, deriveTypeName gives the
\* export name without "Schema" and with its first letter in upper case,
\* followed by "Type" when that is a reserved name, and fails exactly when
\* that stem is empty or is no identifier; every name it gives, and every
\* type name declared in a file written, is an identifier and is not
\* reserved.
DerivedTypeNames ==
    /\ \A m \in tree : \A e \in SchemaExports(m) :
           LET derived == deriveTypeName(e.name)
           IN  /\ derived.ok <=> (Stem(e.name) # <<>> /\ IsTsIdentifier(Stem(e.name)))
               /\ derived.ok =>
                      /\ derived.name = IF Stem(e.name) \in RESERVED_TYPE_NAMES
                                        THEN Stem(e.name) \o TypeSuffix ELSE Stem(e.name)
                      /\ IsTsIdentifier(derived.name)
                      /\ derived.name \notin RESERVED_TYPE_NAMES
    /\ \A d \in Declarations :
           /\ d.typeName = deriveTypeName(d.exportName).name
           /\ IsTsIdentifier(d.typeName)
           /\ d.typeName \notin RESERVED_TYPE_NAMES

\* The declarations of v0/utils.ts are written: FileSchema is declared of
\* the type FileType and ImageURLSchema of the type ImageURL.
FileSchemaDeclaredAsFileType ==
    /\ DeclarationOf(Utils) \in DOMAIN dist
    /\ [typeName |-> <<"F", "i", "l", "e", "T", "y", "p", "e">>,
        exportName |-> <<"F", "i", "l", "e", "S", "c", "h", "e", "m", "a">>] \in Declarations
    /\ [typeName |-> <<"I", "m", "a", "g", "e", "U", "R", "L">>,
        exportName |-> <<"I", "m", "a", "g", "e", "U", "R", "L", "S", "c", "h", "e", "m", "a">>]
           \in Declarations

(***************************************************************************)
(* C18                                                                     *)
(***************************************************************************)
\* The UTF-16 code unit of a character.
CodeUnit(c) ==
    CASE c = "$" -> 36
      [] c = "-" -> 45
      [] c = "." -> 46
      [] c = "/" -> 47
      [] c = "_" -> 95
      [] c \in Range(Digits) -> 47 + IndexOf(Digits, c)
      [] c \in Range(UpperCase) -> 64 + IndexOf(UpperCase, c)
      [] c \in Range(LowerCase) -> 96 + IndexOf(LowerCase, c)

RECURSIVE Lexicographic(_, _)
\* a comes before b in the lexicographic order of the code units.
Lexicographic(a, b) ==
    IF b = <<>> THEN FALSE
    ELSE IF a = <<>> THEN TRUE
    ELSE IF CodeUnit(Head(a)) # CodeUnit(Head(b)) THEN CodeUnit(Head(a)) < CodeUnit(Head(b))
    ELSE Lexicographic(Tail(a), Tail(b))

InLexicographicOrder(q) == \A i, j \in 1..Len(q) : i < j => Lexicographic(q[i], q[j])

InCollationOrder(q) == \A i, j \in 1..Len(q) : i < j => localeCompare(q[i], q[j]) < 0

FilesOfKind(kind) == {dist[f] : f \in {g \in DOMAIN dist : dist[g].kind = kind}}

ExportNames(file) == [i \in 1..Len(file.declarations) |-> file.declarations[i].exportName]

VersionsAscend ==
    \A file \in FilesOfKind("main") :
        \A i, j \in 1..Len(file.versions) : i < j => file.versions[i].version < file.versions[j].version

\* A second run that has ended has ended as the first and has written the
\* same files with the same contents.
SecondRunRepeatsFirst ==
    (runs = 2 /\ pc \in {"done", "failed"}) => (pc = previous.pc /\ dist = previous.dist)

ModuleAt(i) == CHOOSE m \in tree : m.path = sourceFiles[i]

\* Handling the module throws: at its import, at the extraction of its
\* schemas, at the resolution of the overrides or at the generation.
Throws(m) ==
    \/ ~m.loads
    \/ NonSchemas(m) # {}
    \/ Nameless(m) # {}
    \/ SharedTypeNames(m) # {}
    \/ /\ SchemaExports(m) # {}
       /\ \/ \E e \in m.exports : e.kind = "unsupported"
          \/ \E e \in SchemaExports(m) : e.kind = "unprintable"

\* The run stopped at the first module that throws: the modules before it
\* were handled, and only their declaration files are written.
StoppedAtFirstThrow ==
    /\ (pc = "failed" /\ sourceFiles # <<>>) =>
           /\ Throws(ModuleAt(cursor))
           /\ \A i \in 1..(cursor - 1) : ~Throws(ModuleAt(i))
           /\ DOMAIN dist =
                  {DeclarationOf(ModuleAt(i)) : i \in {j \in 1..(cursor - 1) : SchemaExports(ModuleAt(j)) # {}}}
           /\ \A f \in DOMAIN dist : dist[f].kind = "types"
    /\ PastModules => \A m \in tree : ~Throws(m)

Generated == Range(generatedModules)

\* The directories of the directory graph: those of the modules generated
\* and the parents of these.
ObservedDirs ==
    {dirname(p) : p \in Generated}
        \cup {dirname(dirname(p)) : p \in {q \in Generated : dirname(q) # Dot}}

ModulesIn(dir) == {basename(p) : p \in {q \in Generated : dirname(q) = dir}}

SubdirsIn(dir) ==
    {basename(dirname(p)) : p \in {q \in Generated : dirname(q) # Dot /\ dirname(dirname(q)) = dir}}

\* The index file of dir re-exports the modules and the subdirectories of dir.
HasIndex(dir) ==
    /\ join(dir, IndexDts) \in DOMAIN dist
    /\ dist[join(dir, IndexDts)].kind = "index"
    /\ Range(dist[join(dir, IndexDts)].modules) = ModulesIn(dir)
    /\ Range(dist[join(dir, IndexDts)].subdirs) = SubdirsIn(dir)

\* The file of the name of dir, in the parent of dir, re-exports the index of dir.
HasParentBarrel(dir) ==
    /\ join(dirname(dir), basename(dir) \o DtsSuffix) \in DOMAIN dist
    /\ dist[join(dirname(dir), basename(dir) \o DtsSuffix)] = generateParentBarrelDts(basename(dir))

\* C20: when the run is done, every directory of the directory graph has
\* an index file that re-exports every module generated in it and the
\* index of every subdirectory of it, and every such directory but the
\* root has a file of its name one level up that re-exports its index.
EveryDirectoryHasItsBarrels ==
    pc = "done" =>
        \A dir \in ObservedDirs :
            /\ HasIndex(dir)
            /\ dir # Dot => HasParentBarrel(dir)

(***************************************************************************)
(* C21                                                                     *)
(***************************************************************************)
\* A directory of the directory graph has the path of the module m without
\* its extension, so that the barrel of that directory in its parent has
\* the path of the declaration file of m.
BesideADirectory(m) == modulePosixPath(m.path) \in ObservedDirs

\* Every declaration file is that of a module of the tree.
OnlyModulesDeclared ==
    \A f \in DOMAIN dist : dist[f].kind = "types" => \E m \in tree : f = DeclarationOf(m)

DiscoveredVersions ==
    {ToNumber(Tail(SubSeq(modulePosixPath(m.path), 1,
                          Len(modulePosixPath(m.path)) - Len(CharacterModuleTail)))) :
        m \in {x \in tree :
                  /\ IsCharacterModule(modulePosixPath(x.path))
                  /\ \E e \in x.exports : e.name = CharacterSchemaName}}

\* The table of the entry declarations has one entry for every version of
\* the tree, under the directory of that version.
TableOfDiscoveredVersions ==
    LET versions == dist[IndexDts].versions
    IN  /\ {versions[i].version : i \in 1..Len(versions)} = DiscoveredVersions
        /\ \A i, j \in 1..Len(versions) : versions[i].version = versions[j].version => i = j
        /\ \A i \in 1..Len(versions) :
               ToNumber(Tail(versions[i].versionDir)) = versions[i].version

\* C22: when the run is done, the entry declarations at the root export a
\* table with exactly one entry for every version of the tree, and, when
\* there is a version, the default export is the entry of the highest one.
EntryPointDefaultsToHighestVersion ==
    pc = "done" =>
        /\ TableOfDiscoveredVersions
        /\ DiscoveredVersions # {} =>
               dist[IndexDts].default =
                   [binding |-> "version",
                    version |-> CHOOSE v \in DiscoveredVersions : \A w \in DiscoveredVersions : w <= v]

(***************************************************************************)
(* C23                                                                     *)
(***************************************************************************)
\* No issue of the result lies under the key lorebook.
LorebookAccepted == \A i \in result.issues : i.path = <<>> \/ Head(i.path) # "lorebook"

\* C23: for a Chat input without lorebook, lorebook raises no issue and is
\* absent from the returned value; for a Chat input whose lorebook is an
\* array of well-shaped entries, lorebook raises no issue exactly when the
\* ids are pairwise distinct, and the returned value holds the entries in
\* the order of the input.
ChatLorebookStaysAbsent ==
    (Fresh("ChatSchema") /\ input.t = "object") =>
        /\ ~Has(input, <<"lorebook">>) =>
               /\ LorebookAccepted
               /\ result.status = "returned" => ~Has(result.value, <<"lorebook">>)
        /\ (Has(input, <<"lorebook">>) /\ input.f.lorebook.t = "array") =>
               /\ LorebookAccepted <=> PairwiseDistinct(KeysOf(input.f.lorebook, "id"))
               /\ result.status = "returned" =>
                      KeysOf(result.value.f.lorebook, "id") = KeysOf(input.f.lorebook, "id")

(***************************************************************************)
(* C24                                                                     *)
(***************************************************************************)
Resolved == override # Unresolved

\* C24 (as claimed): a schema node whose metadata holds a tsType that is
\* not the empty string is given the type parsed from that tsType,
\* whatever its class, format tag, check descriptors and predicate are.
TsTypeWinsOnEveryNode ==
    (Resolved /\ node.tsType.t = "string" /\ node.tsType.s # <<>>) =>
        override = Overridden(parseTypeNodeFromString(trim(node.tsType.s)))

\* C24 (amended): a custom schema node whose metadata holds a tsType that
\* is not blank is given the type parsed from the trimmed tsType, whatever
\* its format tag, check descriptors, class and predicate are; a node that
\* is not custom is given no type from its tsType.
TsTypeWinsOnCustomNodes ==
    (Resolved /\ node.tsType.t = "string" /\ trim(node.tsType.s) # <<>>) =>
        IF node.class = "ZodCustom"
        THEN override = Overridden(parseTypeNodeFromString(<<"B">>))
        ELSE override.kind = "override" => override.type.kind = "keyword"

\* z.instanceof(Uint8Array) with a check descriptor of ArrayBuffer and
\* the tsType " B " is given the type B.
TsTypeOverCheckAndPredicate ==
    /\ Resolved
    /\ node.class = "ZodCustom"
    /\ node.tsType = Str(<<" ", "B", " ">>)
    /\ node.checks = <<[kind |-> "instanceof", cls |-> "ArrayBuffer"]>>
    /\ node.fn = InstanceofPredicate("Uint8Array")
    /\ override = Overridden(parseTypeNodeFromString(<<"B">>))

(***************************************************************************)
(* C25                                                                     *)
(***************************************************************************)
KnownTypes == {"Uint8Array", "ArrayBuffer", "Date"}

\* The node shows a known type in its check descriptors or in the class of
\* its definition.
KnownByDescriptor(n) ==
    \/ n.cls \in KnownTypes
    \/ \E i \in 1..Len(n.checks) : n.checks[i].kind = "instanceof" /\ n.checks[i].cls \in KnownTypes

\* The predicate of the node takes the sample of a known type and refuses
\* {} and null.
KnownByProbing(n) ==
    /\ n.fn.defined
    /\ \E type \in KnownTypes :
           /\ n.fn.on[type] \in {"true", "truthy"}
           /\ n.fn.on["{}"] = "falsy"
           /\ n.fn.on["null"] = "falsy"

\* The text of the predicate tests a length, a size or an equality and
\* holds no instanceof.
LooksLikeRefinement(n) ==
    /\ n.fn.defined
    /\ "instanceof" \notin n.fn.text
    /\ n.fn.text \cap {"===", "!==", ".size", ".length"} # {}

\* C25: a custom node without tsType that shows no known type, neither in
\* its descriptors nor when its predicate is probed, and whose predicate
\* does not look like a refinement, makes the resolution throw; so the
\* predicate of z.instanceof(Blob) is never given the type of a known class.
UnknownCustomNodeFails ==
    (/\ Resolved
     /\ node.class = "ZodCustom"
     /\ ~HasTsType(node)
     /\ ~KnownByDescriptor(node)
     /\ ~KnownByProbing(node)
     /\ ~LooksLikeRefinement(node)) =>
        override = Unsupported

(***************************************************************************)
(* C26                                                                     *)
(***************************************************************************)
\* The node is what schema.refine(pred) stores: a custom check that holds
\* nothing but the predicate.
PlainCheck(n) ==
    /\ n.class = "ZodCustom"
    /\ n.tsType = Undef
    /\ n.checks = <<>>
    /\ n.cls = "none"

UndetectedRefinementIsValidationOnly ==
    /\ (/\ Resolved
        /\ node.class = "ZodCustom"
        /\ ~HasTsType(node)
        /\ LooksLikeRefinement(node)
        /\ ~KnownByDescriptor(node)
        /\ ~KnownByProbing(node)) =>
           override = NotOverridden
    /\ (Resolved /\ PlainCheck(node) /\ node.fn = UniquePredicate) =>
           /\ ~KnownByProbing(node)
           /\ override = NotOverridden
    /\ (Resolved /\ PlainCheck(node) /\ node.fn = EmptyPredicate) =>
           /\ KnownByProbing(node)
           /\ override = Overridden(createTypeReferenceNode("Uint8Array"))

\* The check stored by refine(unique("id")) is resolved: no override.
UniqueCheckSkipped ==
    /\ Resolved
    /\ PlainCheck(node)
    /\ node.fn = UniquePredicate
    /\ override = NotOverridden

(***************************************************************************)
(* C27                                                                     *)
(***************************************************************************)
\* The loop over the directories wrote the barrel of the root.
RootBarrelWritten ==
    /\ Dot \in ObservedDirs
    /\ ModulesIn(Dot) \cup SubdirsIn(Dot) # {}

\* C27: the index.d.ts of the root is the directory barrel of the root
\* when the loop over the directories has ended, it is the entry-point
\* declaration once the main index is written, and it stays that to the
\* end of the run: the version barrels do not write it.
RootIndexIsTheEntryPoint ==
    /\ (pc = "main" /\ RootBarrelWritten) => HasIndex(Dot)
    /\ pc \in {"versions", "done"} =>
           /\ IndexDts \in DOMAIN dist
           /\ dist[IndexDts] = generateMainIndexDts(normalizedCharacterVersions)
           /\ dist[IndexDts].kind = "main"

\* A run that wrote the barrel of the root is done, and the index.d.ts of
\* the root is the entry-point declaration.
RootBarrelReplaced ==
    /\ pc = "done"
    /\ RootBarrelWritten
    /\ versionDirs # <<>>
    /\ dist[IndexDts].kind = "main"

(***************************************************************************)
(* C28                                                                     *)
(***************************************************************************)
\* The directories on the path from the root to the directory of the
\* module p, both included.
PathDirs(p) ==
    {Dot, dirname(p)}
        \cup {SubSeq(dirname(p), 1, i - 1) : i \in {j \in 1..Len(dirname(p)) : dirname(p)[j] = "/"}}

\* The directory on the path to the module p that d holds.
NextOnPath(d, p) == CHOOSE c \in PathDirs(p) \ {Dot} : dirname(c) = d

\* C28 (as claimed): when the loop over the directories has ended, every
\* directory on the path from the root to the directory of a generated
\* module has an index file, and the index of each of them but the last
\* re-exports the next directory on that path.
EveryDirectoryOnThePathIndexed ==
    pc = "main" =>
        \A p \in Generated : \A d \in PathDirs(p) :
            /\ join(d, IndexDts) \in DOMAIN dist
            /\ dist[join(d, IndexDts)].kind = "index"
            /\ d # dirname(p) => basename(NextOnPath(d, p)) \in Range(dist[join(d, IndexDts)].subdirs)

(***************************************************************************)
(* C29                                                                     *)
(***************************************************************************)
RECURSIVE ReachableFrom(_)
\* The addresses reached from those of S through definitions, shapes,
\* items and values.
ReachableFrom(S) ==
    LET T == S \cup UNION {Range(Callees(heap, a)) : a \in S}
    IN  IF T = S THEN S ELSE ReachableFrom(T)

ReachableSchemas ==
    {a \in ReachableFrom(Range(moduleExportValues(heap))) : heap[a].kind = "schema"}

RECURSIVE ThroughArrays(_)
\* The arrays reached from those of S through items of arrays alone.
ThroughArrays(S) ==
    LET T == S \cup {b \in UNION {Range(heap[a].items) : a \in S} : heap[b].kind = "array"}
    IN  IF T = S THEN S ELSE ThroughArrays(T)

\* A reachable array holds itself, directly or through other arrays.
ArrayCycle ==
    \E a \in ReachableFrom(Range(moduleExportValues(heap))) :
        /\ heap[a].kind = "array"
        /\ \E b \in Range(heap[a].items) : heap[b].kind = "array" /\ a \in ThroughArrays({b})

\* C29 (as claimed): on every graph, cycles included, the walk does not
\* throw; it returns, and what it returns holds every schema reachable
\* from the exports, and no other, once.
CollectsEveryReachableSchemaOnce ==
    /\ walk # "thrown"
    /\ walk = "returned" =>
           /\ Range(found) = ReachableSchemas
           /\ \A i, j \in 1..Len(found) : found[i] = found[j] => i = j

\* Where no reachable array holds itself the walk needs less than the
\* call stack, does not throw, and returns every reachable schema once;
\* where one does, the walk throws or a try of it catches the RangeError.
WalkWithoutArrayCycle ==
    /\ ~ArrayCycle =>
           /\ walk = "walking" => Len(stack) < MaxStack
           /\ walk # "thrown"
           /\ walk = "returned" =>
                  /\ Range(found) = ReachableSchemas
                  /\ \A i, j \in 1..Len(found) : found[i] = found[j] => i = j
    /\ \A i, j \in 1..Len(found) : found[i] = found[j] => i = j
    /\ Range(found) \subseteq ReachableSchemas

(***************************************************************************)
(* C30                                                                     *)
(***************************************************************************)
\* The module m is a member of the directory graph, of the version table
\* or of an index file.
Registered(m) ==
    LET p == modulePosixPath(m.path)
    IN  \/ p \in Generated
        \/ /\ MapHas(dirModules, dirname(p))
           /\ basename(p) \in Range(MapGet(dirModules, dirname(p)))
        \/ /\ IsCharacterModule(p)
           /\ \E i \in 1..Len(characterVersions) :
                  characterVersions[i].versionDir = SubSeq(p, 1, Len(p) - Len(CharacterModuleTail))
        \/ /\ join(dirname(p), IndexDts) \in DOMAIN dist
           /\ dist[join(dirname(p), IndexDts)].kind = "index"
           /\ basename(p) \in Range(dist[join(dirname(p), IndexDts)].modules)

\* The loop over the modules has handled m.
Handled(m) == \E i \in 1..(cursor - 1) : i <= Len(sourceFiles) /\ sourceFiles[i] = m.path

\* C30: a module has a declaration file or is registered in the directory
\* graph or in the version table only when it was handled and its
\* extraction, its overrides and its generation succeeded, and then it has
\* all of these at once; a module on which one of these steps throws has
\* no file at its path and is a member of no graph, table or index.
WrittenAndRegisteredOnlyOnSuccess ==
    \A m \in tree :
        /\ (DeclarationOf(m) \in DOMAIN dist \/ Registered(m)) =>
               /\ Handled(m)
               /\ ~Throws(m)
               /\ SchemaExports(m) # {}
               /\ DeclarationOf(m) \in DOMAIN dist
               /\ modulePosixPath(m.path) \in Generated
               /\ basename(modulePosixPath(m.path)) \in
                      Range(MapGet(dirModules, dirname(modulePosixPath(m.path))))
        /\ Throws(m) => (DeclarationOf(m) \notin DOMAIN dist /\ ~Registered(m))
        /\ (Handled(m) /\ ~Throws(m) /\ SchemaExports(m) # {}) =>
               (DeclarationOf(m) \in DOMAIN dist /\ Registered(m))

\* The run failed at the generation of its second module: the first has
\* its file and is registered, the second has neither.
FailedModuleLeftOut ==
    /\ pc = "failed"
    /\ cursor = 2
    /\ error.kind = "generate"
    /\ Registered(ModuleAt(1))
    /\ DeclarationOf(ModuleAt(1)) \in DOMAIN dist
    /\ DeclarationOf(ModuleAt(2)) \notin DOMAIN dist
    /\ ~Registered(ModuleAt(2))

====
